---- MODULE Spec2Model ----
(***************************************************************************)
(* Purchase-planning engine of the restaurant back end                     *)
(* (app/services/purchasing.py): compute_purchase_recommendations and its  *)
(* helpers, modelled as a state machine that walks the ingredient catalog  *)
(* (Spec); the aggregation of the order history by the DAO                 *)
(* (app/api/routes/purchasing.py, SpecAggregator); and the handler that    *)
(* builds the purchasing summary (SpecSummary).                            *)
(*                                                                         *)
(* Python values are tagged records.  Floats are exact rationals           *)
(* [n |-> numerator, d |-> denominator > 0] kept in lowest terms, so that  *)
(* equality of two floats is equality of the records.                      *)
(***************************************************************************)
EXTENDS Integers, Sequences, FiniteSets, TLC

VARIABLES
    pc,                      \* position of the call: idle, check, loop, done, error
    all_ingredients,         \* the catalog (a sequence of ingredient dicts)
    consumption_data,        \* dict: key -> total consumed
    stock_data,              \* dict: key -> {current_stock, safety_stock}
    supplier_data,           \* dict: key -> {supplier_id, lead_time_days, supplier_name}
    default_supplier_data,   \* dict: key -> {name, default_lead_time_days}
    date_from,               \* day number
    date_to,                 \* day number
    reorder_cycle_days,
    default_lead_time_days,
    days_in_range,           \* local of the call, set once the range is accepted
    recommendations,         \* local list the loop appends to
    index,                   \* number of catalog entries the loop has taken up
    error,                   \* the exception that ended the call, "" when none
    \* SupabasePurchasingDAO.fetch_historical_orders_and_recipes
    dao_pc,                  \* idle, fetched, mapped, orders, done
    orders,                  \* dataset["orders"]: rows {menu_item_id, quantity}
    recipes,                 \* dataset["recipes"]: rows {menu_item_id, ingredient_id, quantity_per_unit}
    menu_items_rows,         \* rows {id, display_name, name} of the menu items sold
    recipe_map,              \* str(menu_item_id) -> list of recipe rows
    menu_item_names,         \* str(id) -> name shown
    consumption,             \* str(ingredient_id) -> quantity consumed
    menu_totals,             \* str(menu_item_id) -> quantity sold, in insertion order
    total_dishes,
    order_index,             \* number of order rows the loop has taken up
    historical,              \* the dict the DAO method returned, None before
    \* the handler purchasing_summary
    handler_pc,              \* idle, requested, resolved, historical, ingredients, stock,
                             \* suppliers, computed, done, error
    dao_returns,             \* what the four fetch methods of the DAO return to this request
    summary,                 \* the PurchasingSummaryResponse, None before
    \* several invocations of compute_purchase_recommendations in flight
    arguments,               \* the argument objects callers hold, by argument set
    calls,                   \* the locals of each invocation
    \* the requests the two handlers are serving
    requests,                \* per request: the handler, its stage, the state of its fetches
    \* a SupabasePurchasingDAO fetching menu items
    _menu_items_supports_display_name,
    menu_calls,              \* the calls of _execute_with_display_name_fallback
    menu_requests            \* the requests sent for menu items, in the order sent

engineVars == <<pc, all_ingredients, consumption_data, stock_data, supplier_data,
                default_supplier_data, date_from, date_to, reorder_cycle_days,
                default_lead_time_days, days_in_range, recommendations, index, error>>

aggregatorVars == <<dao_pc, orders, recipes, menu_items_rows, recipe_map,
                    menu_item_names, consumption, menu_totals, total_dishes,
                    order_index>>

handlerVars == <<handler_pc, dao_returns, historical, summary>>

interleavedVars == <<arguments, calls>>

\* the state no action of the engine, the aggregator or the summary handler touches
requestVars == <<requests>>

menuVars == <<_menu_items_supports_display_name, menu_calls, menu_requests>>

sideVars == <<interleavedVars, requestVars, menuVars>>

vars == <<engineVars, aggregatorVars, handlerVars, sideVars>>

inputs == <<all_ingredients, consumption_data, stock_data, supplier_data,
            default_supplier_data, date_from, date_to, reorder_cycle_days,
            default_lead_time_days>>

-----------------------------------------------------------------------------
(* Bounds of the explored inputs.                                          *)

NumIngredients == 2
NumSuppliers == 2
MaxCatalog == 3
MaxConsumed == 4
MaxStock == 4
MaxSafety == 2
MaxLead == 2
MaxCycle == 2
MaxSpan == 2

-----------------------------------------------------------------------------
(* Python values.                                                          *)

None == [t |-> "none"]
Num(x) == [t |-> "num", v |-> x]
Str(s) == [t |-> "str", v |-> s]
\* a value that neither float(), int() nor UUID() accepts, such as "abc"
Bad == [t |-> "bad"]
\* a uuid.UUID object
Uuid(n) == [t |-> "uuid", n |-> n]
\* a string UUID() accepts: canonical is what str(UUID) prints, the other
\* spellings (upper case, braces, urn:uuid:) parse to the same UUID
UuidText(n, canonical) == [t |-> "uuidtext", n |-> n, canonical |-> canonical]

\* str(key): the canonical text of a UUID, a string as it is
PyStr(key) == IF key.t = "uuid" THEN UuidText(key.n, TRUE) ELSE key

\* truth value of a Python object as used by `or`, `not` and `if`
Truthy(v) ==
    CASE v.t = "none" -> FALSE
      [] v.t = "num" -> v.v # 0
      [] v.t = "str" -> v.v # ""
      [] OTHER -> TRUE

-----------------------------------------------------------------------------
(* Exact arithmetic for float values.                                      *)

Abs(x) == IF x < 0 THEN -x ELSE x

RECURSIVE GCD(_, _)
GCD(a, b) == IF b = 0 THEN a ELSE GCD(b, a % b)

Rat(n, d) ==
    LET g == GCD(Abs(n), Abs(d))
        s == IF d < 0 THEN -1 ELSE 1
    IN  [n |-> (s * n) \div g, d |-> (s * d) \div g]

RInt(x) == [n |-> x, d |-> 1]
RAdd(a, b) == Rat(a.n * b.d + b.n * a.d, a.d * b.d)
RSub(a, b) == Rat(a.n * b.d - b.n * a.d, a.d * b.d)
RMul(a, b) == Rat(a.n * b.n, a.d * b.d)
RDiv(a, b) == Rat(a.n * b.d, a.d * b.n)
RLe(a, b) == a.n * b.d <= b.n * a.d
RLt(a, b) == a.n * b.d < b.n * a.d
RZero == RInt(0)

\* The float inf: a quotient without denominator, larger than every other value
RInfinity == [n |-> 1, d |-> 0]

\* max(a, b) of Python: the first argument unless the second is larger
PyMax(a, b) == IF RLt(a, b) THEN b ELSE a

-----------------------------------------------------------------------------
(* Helpers of purchasing.py.                                               *)

\* a dict object holding the key/value pairs of the function items
Dict(items) == [t |-> "dict", items |-> items]
EmptyDict == Dict(<<>>)

\* the keys of a dict argument; an argument passed as None has none
Keys(mapping) == IF mapping = None THEN {} ELSE DOMAIN mapping.items

\* `key in mapping`
HasKey(mapping, key) == key \in Keys(mapping)

\* Faulty variant: only the typed key is tried
LookupTypedOnly(mapping, key) ==
    IF mapping = None \/ key = None THEN None
    ELSE IF HasKey(mapping, key) THEN mapping.items[key]
    ELSE None

_lookup(mapping, key) ==
    IF mapping = None \/ key = None THEN None
    ELSE IF HasKey(mapping, key) THEN mapping.items[key]
    ELSE IF HasKey(mapping, PyStr(key)) THEN mapping.items[PyStr(key)]
    ELSE None

_coerce_uuid(value) ==
    CASE value.t = "none" -> None
      [] value.t = "uuid" -> value
      [] value.t = "uuidtext" -> Uuid(value.n)
      [] OTHER -> None

\* float('inf'), or a string such as "inf" or "Infinity": float() accepts it
Inf == [t |-> "inf"]

\* float(value) with the default for None and for what float() rejects;
\* the result is a rational, or the default as given
_to_float(value, default) ==
    CASE value.t = "none" -> default
      [] value.t = "num" -> RInt(value.v)
      [] value.t = "inf" -> RInfinity
      [] OTHER -> default

\* An int beyond the range of a float: float() raises OverflowError on it,
\* which the except clause of line 190 (TypeError, ValueError) lets through
Huge == [t |-> "huge"]

\* Whether _to_float(value) ends in an exception instead of a float
FloatRaises(value) == value.t = "huge"

\* int(value) raises ValueError on what it cannot parse
IntRaises(value) == value.t # "num"
PyInt(value) == value.v

\* Faulty variant: the quantity is not looked at
StatusByCoverageOnly(has_consumption_data, coverage_days, recommended_order_quantity, lead_time_days, planning_horizon_days) ==
    IF ~has_consumption_data THEN "NO_DATA"
    ELSE IF coverage_days = None THEN "LOW"
    ELSE IF RLe(coverage_days, RInt(lead_time_days)) THEN "CRITICAL"
    ELSE IF RLe(coverage_days, RInt(planning_horizon_days)) THEN "LOW"
    ELSE "OK"

\* Faulty variant: an undefined coverage is tested before the quantity
StatusNullCoverageFirst(has_consumption_data, coverage_days, recommended_order_quantity, lead_time_days, planning_horizon_days) ==
    IF ~has_consumption_data THEN "NO_DATA"
    ELSE IF coverage_days = None THEN "LOW"
    ELSE IF RLe(recommended_order_quantity, RZero) THEN "OK"
    ELSE IF RLe(coverage_days, RInt(lead_time_days)) THEN "CRITICAL"
    ELSE IF RLe(coverage_days, RInt(planning_horizon_days)) THEN "LOW"
    ELSE "OK"

\* Faulty variant: the quantity is tested before the absence of data
StatusQuantityFirst(has_consumption_data, coverage_days, recommended_order_quantity, lead_time_days, planning_horizon_days) ==
    IF RLe(recommended_order_quantity, RZero)
    THEN (IF has_consumption_data THEN "OK" ELSE "NO_DATA")
    ELSE IF coverage_days = None THEN "LOW"
    ELSE IF RLe(coverage_days, RInt(lead_time_days)) THEN "CRITICAL"
    ELSE IF RLe(coverage_days, RInt(planning_horizon_days)) THEN "LOW"
    ELSE "OK"

\* Faulty variant: CRITICAL is tested against the planning horizon
StatusCriticalByHorizon(has_consumption_data, coverage_days, recommended_order_quantity, lead_time_days, planning_horizon_days) ==
    IF ~has_consumption_data THEN "NO_DATA"
    ELSE IF RLe(recommended_order_quantity, RZero) THEN "OK"
    ELSE IF coverage_days = None THEN "LOW"
    ELSE IF RLe(coverage_days, RInt(planning_horizon_days)) THEN "CRITICAL"
    ELSE "OK"

\* Faulty variant: an undefined coverage is reported CRITICAL
StatusNullCoverageCritical(has_consumption_data, coverage_days, recommended_order_quantity, lead_time_days, planning_horizon_days) ==
    IF ~has_consumption_data THEN "NO_DATA"
    ELSE IF RLe(recommended_order_quantity, RZero) THEN "OK"
    ELSE IF coverage_days = None THEN "CRITICAL"
    ELSE IF RLe(coverage_days, RInt(lead_time_days)) THEN "CRITICAL"
    ELSE IF RLe(coverage_days, RInt(planning_horizon_days)) THEN "LOW"
    ELSE "OK"

\* Faulty variant: the LOW test excludes a coverage equal to the horizon
StatusStrictHorizon(has_consumption_data, coverage_days, recommended_order_quantity, lead_time_days, planning_horizon_days) ==
    IF ~has_consumption_data THEN "NO_DATA"
    ELSE IF RLe(recommended_order_quantity, RZero) THEN "OK"
    ELSE IF coverage_days = None THEN "LOW"
    ELSE IF RLe(coverage_days, RInt(lead_time_days)) THEN "CRITICAL"
    ELSE IF RLt(coverage_days, RInt(planning_horizon_days)) THEN "LOW"
    ELSE "OK"

_determine_status(has_consumption_data, coverage_days, recommended_order_quantity, lead_time_days, planning_horizon_days) ==
    IF ~has_consumption_data THEN "NO_DATA"
    ELSE IF RLe(recommended_order_quantity, RZero) THEN "OK"
    ELSE IF coverage_days = None THEN "LOW"
    ELSE IF RLe(coverage_days, RInt(lead_time_days)) THEN "CRITICAL"
    ELSE IF RLe(coverage_days, RInt(planning_horizon_days)) THEN "LOW"
    ELSE "OK"

\* dict.get(field) on a dict modelled as a record whose absent keys hold None
EmptyStockEntry == [current_stock |-> None, safety_stock |-> None]
EmptyOverride == [supplier_id |-> None, lead_time_days |-> None, supplier_name |-> None]

\* `x or {}` (lines 69 and 78): None and the empty dict both read as no field set
OrEmpty(entry, empty) == IF entry = None THEN empty ELSE entry

\* Faulty variant: the second operand wins when it is set
PyOrSecondFirst(a, b) == IF Truthy(b) THEN b ELSE a

\* `a or b` on two optional UUIDs (line 131)
PyOr(a, b) == IF Truthy(a) THEN a ELSE b

\* The supplier record consulted by the resolver (line 134)
SupplierRecord(supplier_id, directory) ==
    IF Truthy(supplier_id) THEN _lookup(directory, supplier_id) ELSE None

\* Faulty variant: a lead time of 0 in the override counts as absent
LeadTimeSourceFalsy(supplier_override, supplier_record, fallback) ==
    LET own == supplier_override.lead_time_days
        lead_time == IF ~Truthy(own) /\ supplier_record # None
                     THEN supplier_record.default_lead_time_days
                     ELSE own
    IN  IF lead_time # None THEN lead_time ELSE Num(fallback)

\* The value handed to int() on line 139
LeadTimeSource(supplier_override, supplier_record, fallback) ==
    LET own == supplier_override.lead_time_days
        lead_time == IF own = None /\ supplier_record # None
                     THEN supplier_record.default_lead_time_days
                     ELSE own
    IN  IF lead_time # None THEN lead_time ELSE Num(fallback)

\* [raised, lead_time_days, supplier_reference]; raised is the ValueError of int()
_resolve_supplier_context(ingredient, supplier_override, directory, fallback) ==
    LET default_supplier_id == _coerce_uuid(ingredient.default_supplier_id)
        override_supplier_id == _coerce_uuid(supplier_override.supplier_id)
        supplier_id == PyOr(override_supplier_id, default_supplier_id)
        supplier_record == SupplierRecord(supplier_id, directory)
        lead_time == LeadTimeSource(supplier_override, supplier_record, fallback)
        own_name == supplier_override.supplier_name
        supplier_name == IF ~Truthy(own_name) /\ supplier_record # None
                         THEN supplier_record.name
                         ELSE own_name
        supplier_reference == IF supplier_id # None /\ Truthy(supplier_name)
                              THEN [id |-> supplier_id, name |-> supplier_name.v]
                              ELSE None
    IN  IF IntRaises(lead_time)
        THEN [raised |-> TRUE, lead_time_days |-> 0, supplier_reference |-> None]
        ELSE [raised |-> FALSE, lead_time_days |-> PyInt(lead_time),
              supplier_reference |-> supplier_reference]

\* Faulty variant: the last day of the range is not counted
DaysBetween(from, to) == IF to - from > 1 THEN to - from ELSE 1

\* max((date_to - date_from).days + 1, 1), line 58
DaysInRange(from, to) == IF (to - from) + 1 > 1 THEN (to - from) + 1 ELSE 1

\* Faulty variant: a negative reorder cycle shortens the horizon
CycleAsGiven(cycle) == cycle

\* max(reorder_cycle_days, 0), line 86
ClampCycle(cycle) == IF cycle > 0 THEN cycle ELSE 0

\* Faulty variant: the quantity is not clamped at zero
RecommendedQuantityUnclamped(projected_need, safety_stock, current_stock) ==
    RSub(RAdd(projected_need, safety_stock), current_stock)

\* Faulty variant: the distance between stock and need is ordered
RecommendedQuantityDistance(projected_need, safety_stock, current_stock) ==
    LET net == RSub(RAdd(projected_need, safety_stock), current_stock)
    IN  PyMax(net, RSub(RZero, net))

\* Line 88: max(0.0, projected_need + safety_stock - current_stock)
RecommendedQuantity(projected_need, safety_stock, current_stock) ==
    PyMax(RZero, RSub(RAdd(projected_need, safety_stock), current_stock))

\* Lines 69-117 for one catalog entry whose id was coerced to ingredient_id.
IngredientRecommendation(ingredient, ingredient_id, consumed, stock, overrides, directory, days, cycle, fallback) ==
    LET stock_entry == OrEmpty(_lookup(stock, ingredient_id), EmptyStockEntry)
        current_stock == _to_float(stock_entry.current_stock, RZero)
        safety_stock == _to_float(stock_entry.safety_stock, RZero)
        raw_consumption == _lookup(consumed, ingredient_id)
        has_consumption_data == raw_consumption # None
        total_consumed == _to_float(raw_consumption, RZero)
        avg_daily_consumption == IF has_consumption_data
                                 THEN RDiv(total_consumed, RInt(days))
                                 ELSE RZero
        supplier_override == OrEmpty(_lookup(overrides, ingredient_id), EmptyOverride)
        ctx == _resolve_supplier_context(ingredient, supplier_override, directory, fallback)
        lead_time_days == ctx.lead_time_days
        planning_horizon_days == lead_time_days + ClampCycle(cycle)
        projected_need == RMul(avg_daily_consumption, RInt(planning_horizon_days))
        recommended_order_quantity ==
            RecommendedQuantity(projected_need, safety_stock, current_stock)
        coverage_days == IF RLt(RZero, avg_daily_consumption)
                         THEN RDiv(current_stock, avg_daily_consumption)
                         ELSE None
        status == _determine_status(has_consumption_data, coverage_days,
                                    recommended_order_quantity, lead_time_days,
                                    planning_horizon_days)
    IN  [ingredient_id |-> ingredient_id,
         current_stock |-> current_stock,
         safety_stock |-> safety_stock,
         total_quantity_consumed |-> total_consumed,
         avg_daily_consumption |-> avg_daily_consumption,
         lead_time_days |-> lead_time_days,
         planning_horizon_days |-> planning_horizon_days,
         projected_need |-> projected_need,
         recommended_order_quantity |-> recommended_order_quantity,
         coverage_days |-> coverage_days,
         status |-> status,
         default_supplier |-> ctx.supplier_reference]

\* Whether one of the conversions of lines 70, 71 and 75 raises for this entry
StockFloatRaises(ingredient_id, consumed, stock) ==
    LET stock_entry == OrEmpty(_lookup(stock, ingredient_id), EmptyStockEntry)
    IN  \/ FloatRaises(stock_entry.current_stock)
        \/ FloatRaises(stock_entry.safety_stock)
        \/ FloatRaises(_lookup(consumed, ingredient_id))

\* Whether int() on line 139 raises for this entry
LeadTimeRaises(ingredient, ingredient_id, overrides, directory, fallback) ==
    _resolve_supplier_context(
        ingredient,
        OrEmpty(_lookup(overrides, ingredient_id), EmptyOverride),
        directory, fallback).raised

-----------------------------------------------------------------------------
(* The whole call as a function of its arguments.                          *)

\* Outcome of the loop of lines 61-118 from catalog position i on, given the
\* recommendations appended so far
RECURSIVE LoopFrom(_, _, _, _, _, _, _, _, _, _)
LoopFrom(i, acc, catalog, consumed, stock, overrides, directory, days, cycle, fallback) ==
    IF i > Len(catalog) THEN [raised |-> "", value |-> acc]
    ELSE LET ingredient == catalog[i]
             ingredient_id == _coerce_uuid(ingredient.id)
         IN  IF ingredient_id = None
             THEN [raised |-> "missing_id", value |-> <<>>]
             ELSE IF StockFloatRaises(ingredient_id, consumed, stock)
             THEN [raised |-> "float_overflow", value |-> <<>>]
             ELSE IF LeadTimeRaises(ingredient, ingredient_id, overrides, directory, fallback)
             THEN [raised |-> "invalid_int", value |-> <<>>]
             ELSE LoopFrom(i + 1,
                           Append(acc, IngredientRecommendation(
                               ingredient, ingredient_id, consumed, stock,
                               overrides, directory, days, cycle, fallback)),
                           catalog, consumed, stock, overrides, directory,
                           days, cycle, fallback)

\* compute_purchase_recommendations: [raised, value], raised = "" on success
compute_purchase_recommendations(catalog, consumed, stock, overrides, directory, from, to, cycle, fallback) ==
    IF to < from THEN [raised |-> "invalid_range", value |-> <<>>]
    ELSE LoopFrom(1, <<>>, catalog, consumed, stock, overrides, directory,
                  DaysInRange(from, to), cycle, fallback)

-----------------------------------------------------------------------------
(* Arguments the calls are explored with.                                  *)

\* signature defaults of compute_purchase_recommendations
DefaultReorderCycleDays == 7
DefaultLeadTimeDays == 2

DayZero == 0

IngredientNumbers == 1..NumIngredients
SupplierNumbers == 1..NumSuppliers

KeyForms(n) == {Uuid(n), UuidText(n, TRUE), UuidText(n, FALSE)}

Ingredient(id, supplier) == [id |-> id, default_supplier_id |-> supplier]
StockEntry(c, s) == [current_stock |-> c, safety_stock |-> s]
Override(sid, lead, name) ==
    [supplier_id |-> sid, lead_time_days |-> lead, supplier_name |-> name]
DirectoryEntry(name, lead) == [name |-> name, default_lead_time_days |-> lead]

\* dicts over every subset of a set of keys
Dicts(keys, values) == {Dict(f) : f \in UNION {[d -> values] : d \in SUBSET keys}}

\* lists of at most n elements
Lists(n, values) == UNION {[1..k -> values] : k \in 0..n}

Nums(lo, hi) == {Num(x) : x \in lo..hi}

\* One ingredient, typed keys: every combination of quantities
ArithInputs ==
    [all_ingredients : {<<Ingredient(Uuid(1), None)>>},
     consumption_data : {EmptyDict} \cup
         {Dict(Uuid(1) :> v) : v \in {None, Bad} \cup Nums(-1, MaxConsumed)},
     stock_data : {Dict(Uuid(1) :> StockEntry(c, s)) :
                      c \in {None, Bad} \cup Nums(-1, MaxStock),
                      s \in Nums(-1, MaxSafety)},
     supplier_data : {Dict(Uuid(1) :> Override(None, l, None)) :
                         l \in {None} \cup Nums(-1, MaxLead)},
     default_supplier_data : {EmptyDict},
     date_from : {DayZero},
     date_to : {DayZero + k : k \in -1..MaxSpan},
     reorder_cycle_days : -1..MaxCycle,
     default_lead_time_days : {DefaultLeadTimeDays}]

\* One ingredient: every shape of override and of supplier directory.  The three
\* sources of a lead time carry different numbers.
SupplierInputs ==
    [all_ingredients :
         {<<Ingredient(Uuid(1), d)>> : d \in {None} \cup {Uuid(s) : s \in SupplierNumbers}},
     consumption_data : {Dict(Uuid(1) :> Num(MaxConsumed))},
     stock_data : {Dict(Uuid(1) :> StockEntry(Num(1), Num(1)))},
     supplier_data : {EmptyDict} \cup
         {Dict(Uuid(1) :> Override(sid, l, nm)) :
              sid \in {None} \cup {Uuid(s) : s \in SupplierNumbers},
              l \in {None, Bad, Num(0), Num(MaxLead)},
              nm \in {None, Str(""), Str("Cached")}},
     default_supplier_data : {EmptyDict} \cup
         {Dict(Uuid(s) :> DirectoryEntry(nm, l)) :
              s \in SupplierNumbers,
              nm \in {None, Str(""), Str("Main Supplier")},
              l \in {None, Bad, Num(MaxLead + 1)}},
     date_from : {DayZero},
     date_to : {DayZero + MaxSpan},
     reorder_cycle_days : {MaxCycle},
     default_lead_time_days : {MaxLead + 2}]

\* Every ingredient bought from supplier 1, each with or without an override
SharedSupplierInputs ==
    [all_ingredients : {[n \in IngredientNumbers |-> Ingredient(Uuid(n), Uuid(1))]},
     consumption_data : {Dict([k \in {Uuid(n) : n \in IngredientNumbers} |-> Num(MaxConsumed)])},
     stock_data : {EmptyDict},
     supplier_data : Dicts({Uuid(n) : n \in IngredientNumbers},
                           {Override(None, l, None) : l \in {None, Num(0), Num(MaxLead)}}),
     default_supplier_data : {EmptyDict} \cup
         {Dict(Uuid(1) :> DirectoryEntry(Str("Main Supplier"), l)) : l \in {None, Num(MaxLead + 1)}},
     date_from : {DayZero},
     date_to : {DayZero + MaxSpan},
     reorder_cycle_days : {MaxCycle},
     default_lead_time_days : {MaxLead + 2}]

\* One ingredient: every way of keying the four dicts and of writing the ids.
\* The value stored under a key tells which spelling of the key it is.
KeyedConsumption(k) == Num(IF k.t = "uuid" THEN 3 ELSE IF k.canonical THEN 2 ELSE 1)
KeyedStock(k) == StockEntry(KeyedConsumption(k), Num(0))
KeyedOverride(k) == Override(None, KeyedConsumption(k), None)
KeyedDirectory(k) == DirectoryEntry(Str("Main Supplier"), Num(3 + KeyedConsumption(k).v))

KeyInputs ==
    [all_ingredients : {<<Ingredient(i, d)>> :
                           i \in KeyForms(1), d \in {Uuid(1), UuidText(1, TRUE)}},
     consumption_data : {Dict([k \in d |-> KeyedConsumption(k)]) : d \in SUBSET KeyForms(1)},
     stock_data : {Dict([k \in d |-> KeyedStock(k)]) : d \in SUBSET KeyForms(1)},
     supplier_data : {Dict([k \in d |-> KeyedOverride(k)]) :
                         d \in SUBSET {Uuid(1), UuidText(1, TRUE)}} \cup {EmptyDict},
     default_supplier_data : {Dict([k \in d |-> KeyedDirectory(k)]) : d \in SUBSET KeyForms(1)},
     date_from : {DayZero},
     date_to : {DayZero},
     reorder_cycle_days : {MaxCycle},
     default_lead_time_days : {DefaultLeadTimeDays}]

\* Catalogs of every shape, entries without a usable id included
CatalogInputs ==
    [all_ingredients :
         Lists(MaxCatalog,
               {Ingredient(i, None) :
                    i \in {None, Bad} \cup UNION {{Uuid(n), UuidText(n, TRUE)} :
                                                     n \in IngredientNumbers}}),
     consumption_data : {Dict(Uuid(1) :> Num(MaxConsumed))},
     stock_data : {EmptyDict},
     supplier_data : {EmptyDict} \cup
         {Dict(Uuid(n) :> Override(None, Bad, None)) : n \in {1, NumIngredients}},
     default_supplier_data : {EmptyDict},
     date_from : {DayZero},
     date_to : {DayZero - 1, DayZero + MaxSpan},
     reorder_cycle_days : {MaxCycle},
     default_lead_time_days : {DefaultLeadTimeDays}]

\* One ingredient: each dict argument passed as None, empty, or holding an entry
\* that is None or whose stock values are absent, unparseable or out of range
OptionalInputs ==
    [all_ingredients : {<<Ingredient(Uuid(1), Uuid(1))>>},
     consumption_data : {None, EmptyDict} \cup
         {Dict(Uuid(1) :> v) : v \in {Num(MaxConsumed), Huge}},
     stock_data : {None, EmptyDict, Dict(Uuid(1) :> None)} \cup
         {Dict(Uuid(1) :> StockEntry(c, s)) :
              c \in {None, Bad, Huge, Num(MaxStock)},
              s \in {None, Bad, Huge, Num(MaxSafety)}},
     supplier_data : {None, EmptyDict, Dict(Uuid(1) :> None)},
     default_supplier_data : {None, EmptyDict},
     date_from : {DayZero},
     date_to : {DayZero + MaxSpan},
     reorder_cycle_days : {MaxCycle},
     default_lead_time_days : {DefaultLeadTimeDays}]

\* The calls of tests/test_purchasing_service.py: two ingredients with stock
\* levels of lines 15-58, one without consumption of lines 77-96, one with ample
\* stock of lines 105-119; 2024-05-01 is day DayZero
TestInputs ==
    {[all_ingredients |-> <<Ingredient(Uuid(1), Uuid(1)), Ingredient(Uuid(2), Uuid(2))>>,
      consumption_data |-> Dict(Uuid(1) :> Num(14) @@ UuidText(2, TRUE) :> Num(7)),
      stock_data |-> Dict(Uuid(1) :> StockEntry(Num(2), Num(1))
                          @@ UuidText(2, TRUE) :> StockEntry(Num(120), Num(5))),
      supplier_data |-> Dict(Uuid(1) :> Override(None, Num(5), None)),
      default_supplier_data |->
          Dict(Uuid(1) :> DirectoryEntry(Str("Fresh Farms"), Num(3))
               @@ UuidText(2, TRUE) :> DirectoryEntry(Str("Fine Cheese Co"), Num(4))),
      date_from |-> DayZero,
      date_to |-> DayZero + 6,
      reorder_cycle_days |-> DefaultReorderCycleDays,
      default_lead_time_days |-> DefaultLeadTimeDays],
     [all_ingredients |-> <<Ingredient(Uuid(1), Uuid(1))>>,
      consumption_data |-> EmptyDict,
      stock_data |-> Dict(Uuid(1) :> StockEntry(Num(5), Num(1))),
      supplier_data |-> EmptyDict,
      default_supplier_data |->
          Dict(Uuid(1) :> DirectoryEntry(Str("Herb Source"), Num(3))),
      date_from |-> DayZero,
      date_to |-> DayZero + 6,
      reorder_cycle_days |-> DefaultReorderCycleDays,
      default_lead_time_days |-> DefaultLeadTimeDays],
     [all_ingredients |-> <<Ingredient(Uuid(1), None)>>,
      consumption_data |-> Dict(Uuid(1) :> Num(10)),
      stock_data |-> Dict(Uuid(1) :> StockEntry(Num(200), Num(0))),
      supplier_data |-> EmptyDict,
      default_supplier_data |-> EmptyDict,
      date_from |-> DayZero,
      date_to |-> DayZero + 9,
      reorder_cycle_days |-> DefaultReorderCycleDays,
      default_lead_time_days |-> DefaultLeadTimeDays]}

\* One ingredient whose current stock is recorded as infinite, with or without
\* consumption
InfiniteStockInputs ==
    [all_ingredients : {<<Ingredient(Uuid(1), None)>>},
     consumption_data : {EmptyDict} \cup
         {Dict(Uuid(1) :> v) : v \in {Num(0), Num(MaxConsumed)}},
     stock_data : {Dict(Uuid(1) :> StockEntry(Inf, s)) : s \in {Num(0), Num(MaxSafety)}},
     supplier_data : {EmptyDict},
     default_supplier_data : {EmptyDict},
     date_from : {DayZero},
     date_to : {DayZero, DayZero + MaxSpan},
     reorder_cycle_days : {MaxCycle},
     default_lead_time_days : {DefaultLeadTimeDays}]

Inputs == ArithInputs \cup SupplierInputs \cup SharedSupplierInputs
              \cup KeyInputs \cup CatalogInputs \cup OptionalInputs
              \cup TestInputs \cup InfiniteStockInputs

-----------------------------------------------------------------------------
(* Several invocations at once.                                            *)

NumCalls == 3

\* The invocations in flight; the last one is given other argument objects than
\* the rest
Calls == 1..NumCalls
ArgumentSets == 1..2
ArgumentSetOf(c) == IF c = NumCalls THEN 2 ELSE 1

\* The locals of an invocation that has not started (lines 58-59 set them)
IdleCall == [pc |-> "idle", days_in_range |-> 0, recommendations |-> <<>>,
             index |-> 0, error |-> ""]

\* Catalogs naming ingredient 1 twice or holding an entry without id, with or
\* without consumption, over a valid or an inverted date range
InterleavedInputs ==
    [all_ingredients : {<<Ingredient(Uuid(1), None), Ingredient(i, None)>> :
                           i \in {Uuid(1), UuidText(1, TRUE), None}},
     consumption_data : {EmptyDict, Dict(Uuid(1) :> Num(MaxConsumed))},
     stock_data : {Dict(Uuid(1) :> StockEntry(Num(1), Num(1)))},
     supplier_data : {EmptyDict},
     default_supplier_data : {EmptyDict},
     date_from : {DayZero},
     date_to : {DayZero - 1, DayZero + MaxSpan},
     reorder_cycle_days : {MaxCycle},
     default_lead_time_days : {DefaultLeadTimeDays}]

-----------------------------------------------------------------------------
(* Requests served by list_purchase_recommendations and purchasing_summary. *)

NumRequests == 2

Requests == 1..NumRequests

\* The four DAO methods the handlers await, in the order of lines 1379-1382 and
\* 1408-1411
Fetches == <<"fetch_historical_orders_and_recipes", "fetch_all_ingredients",
             "fetch_stock_data", "fetch_supplier_and_lead_time_data">>

\* A request slot no request has arrived on
NoRequest == [handler |-> "", stage |-> "idle",
              fetches |-> [k \in DOMAIN Fetches |-> "pending"]]

-----------------------------------------------------------------------------
(* Calls of SupabasePurchasingDAO._execute_with_display_name_fallback.     *)

NumMenuCalls == 3

MenuCalls == 1..NumMenuCalls

\* A call that has not been made
NoMenuCall == [pc |-> "idle", include_display_name |-> FALSE, attempts |-> 0]

\* A Python bool held in an Optional[bool] attribute
Bool(b) == [t |-> "bool", v |-> b]

\* What a request sent to the menu_items table is answered with
MenuResponses == {"rows", "missing_display_name", "postgrest_error", "httpx_error"}

-----------------------------------------------------------------------------
(* The call, step by step.                                                 *)

Init ==
    /\ pc = "idle"
    /\ all_ingredients = <<>>
    /\ consumption_data = EmptyDict
    /\ stock_data = EmptyDict
    /\ supplier_data = EmptyDict
    /\ default_supplier_data = EmptyDict
    /\ date_from = DayZero
    /\ date_to = DayZero
    /\ reorder_cycle_days = DefaultReorderCycleDays
    /\ default_lead_time_days = DefaultLeadTimeDays
    /\ days_in_range = 0
    /\ recommendations = <<>>
    /\ index = 0
    /\ error = ""
    /\ dao_pc = "idle"
    /\ orders = <<>>
    /\ recipes = <<>>
    /\ menu_items_rows = <<>>
    /\ recipe_map = <<>>
    /\ menu_item_names = <<>>
    /\ consumption = <<>>
    /\ menu_totals = <<>>
    /\ total_dishes = 0
    /\ order_index = 0
    /\ historical = None
    /\ handler_pc = "idle"
    /\ dao_returns = None
    /\ summary = None
    /\ arguments = <<>>
    /\ calls = [c \in Calls |-> IdleCall]
    /\ requests = [r \in Requests |-> NoRequest]
    /\ _menu_items_supports_display_name = None
    /\ menu_calls = [c \in MenuCalls |-> NoMenuCall]
    /\ menu_requests = <<>>

\* A caller invokes compute_purchase_recommendations
Call ==
    /\ pc = "idle"
    /\ \E args \in Inputs :
          /\ all_ingredients' = args.all_ingredients
          /\ consumption_data' = args.consumption_data
          /\ stock_data' = args.stock_data
          /\ supplier_data' = args.supplier_data
          /\ default_supplier_data' = args.default_supplier_data
          /\ date_from' = args.date_from
          /\ date_to' = args.date_to
          /\ reorder_cycle_days' = args.reorder_cycle_days
          /\ default_lead_time_days' = args.default_lead_time_days
    /\ pc' = "check"
    /\ UNCHANGED <<days_in_range, recommendations, index, error>>
    /\ UNCHANGED <<sideVars, aggregatorVars, handlerVars>>

\* lines 55-56
RaiseInvalidRange ==
    /\ pc = "check"
    /\ date_to < date_from
    /\ pc' = "error"
    /\ error' = "invalid_range"
    /\ UNCHANGED <<inputs, days_in_range, recommendations, index>>
    /\ UNCHANGED <<sideVars, aggregatorVars, handlerVars>>

\* Faulty variant: the loop is entered without the range having been checked
EnterLoopUnchecked ==
    /\ pc = "check"
    /\ days_in_range' = DaysInRange(date_from, date_to)
    /\ recommendations' = <<>>
    /\ pc' = "loop"
    /\ UNCHANGED <<inputs, index, error>>
    /\ UNCHANGED <<sideVars, aggregatorVars, handlerVars>>

\* lines 58-59
EnterLoop ==
    /\ pc = "check"
    /\ ~(date_to < date_from)
    /\ days_in_range' = DaysInRange(date_from, date_to)
    /\ recommendations' = <<>>
    /\ pc' = "loop"
    /\ UNCHANGED <<inputs, index, error>>
    /\ UNCHANGED <<sideVars, aggregatorVars, handlerVars>>

\* Faulty variant: an entry without a usable id is skipped
SkipMissingId ==
    /\ pc = "loop"
    /\ index < Len(all_ingredients)
    /\ _coerce_uuid(all_ingredients[index + 1].id) = None
    /\ index' = index + 1
    /\ UNCHANGED <<inputs, days_in_range, recommendations, pc, error>>
    /\ UNCHANGED <<sideVars, aggregatorVars, handlerVars>>

\* lines 61-64: the next catalog entry has no usable id
RaiseMissingId ==
    /\ pc = "loop"
    /\ index < Len(all_ingredients)
    /\ _coerce_uuid(all_ingredients[index + 1].id) = None
    /\ index' = index + 1
    /\ pc' = "error"
    /\ error' = "missing_id"
    /\ UNCHANGED <<inputs, days_in_range, recommendations>>
    /\ UNCHANGED <<sideVars, aggregatorVars, handlerVars>>

\* lines 61-75 and 185-191: float() overflows on a stock or consumption value of
\* the next entry and the exception leaves _to_float
RaiseFloatOverflow ==
    /\ pc = "loop"
    /\ index < Len(all_ingredients)
    /\ LET ingredient_id == _coerce_uuid(all_ingredients[index + 1].id)
       IN  /\ ingredient_id # None
           /\ StockFloatRaises(ingredient_id, consumption_data, stock_data)
    /\ index' = index + 1
    /\ pc' = "error"
    /\ error' = "float_overflow"
    /\ UNCHANGED <<inputs, days_in_range, recommendations>>
    /\ UNCHANGED <<sideVars, aggregatorVars, handlerVars>>

\* lines 61-84 and 139: int() rejects the lead time found for the next entry
RaiseInvalidLeadTime ==
    /\ pc = "loop"
    /\ index < Len(all_ingredients)
    /\ LET ingredient == all_ingredients[index + 1]
           ingredient_id == _coerce_uuid(ingredient.id)
       IN  /\ ingredient_id # None
           /\ ~StockFloatRaises(ingredient_id, consumption_data, stock_data)
           /\ LeadTimeRaises(ingredient, ingredient_id, supplier_data,
                             default_supplier_data, default_lead_time_days)
    /\ index' = index + 1
    /\ pc' = "error"
    /\ error' = "invalid_int"
    /\ UNCHANGED <<inputs, days_in_range, recommendations>>
    /\ UNCHANGED <<sideVars, aggregatorVars, handlerVars>>

\* Faulty variant: an ingredient already recommended is not appended again
AppendUnlessPresent ==
    /\ pc = "loop"
    /\ index < Len(all_ingredients)
    /\ LET ingredient == all_ingredients[index + 1]
           ingredient_id == _coerce_uuid(ingredient.id)
       IN  /\ ingredient_id # None
           /\ ~StockFloatRaises(ingredient_id, consumption_data, stock_data)
           /\ ~LeadTimeRaises(ingredient, ingredient_id, supplier_data,
                              default_supplier_data, default_lead_time_days)
           /\ recommendations' =
                  IF \E i \in 1..Len(recommendations) :
                         recommendations[i].ingredient_id = ingredient_id
                  THEN recommendations
                  ELSE Append(recommendations,
                           IngredientRecommendation(ingredient, ingredient_id,
                               consumption_data, stock_data, supplier_data,
                               default_supplier_data, days_in_range,
                               reorder_cycle_days, default_lead_time_days))
    /\ index' = index + 1
    /\ UNCHANGED <<inputs, days_in_range, pc, error>>
    /\ UNCHANGED <<sideVars, aggregatorVars, handlerVars>>

\* lines 61-118: one pass of the loop body that appends a recommendation
AppendRecommendation ==
    /\ pc = "loop"
    /\ index < Len(all_ingredients)
    /\ LET ingredient == all_ingredients[index + 1]
           ingredient_id == _coerce_uuid(ingredient.id)
       IN  /\ ingredient_id # None
           /\ ~StockFloatRaises(ingredient_id, consumption_data, stock_data)
           /\ ~LeadTimeRaises(ingredient, ingredient_id, supplier_data,
                              default_supplier_data, default_lead_time_days)
           /\ recommendations' = Append(recommendations,
                  IngredientRecommendation(ingredient, ingredient_id, consumption_data,
                      stock_data, supplier_data, default_supplier_data,
                      days_in_range, reorder_cycle_days, default_lead_time_days))
    /\ index' = index + 1
    /\ UNCHANGED <<inputs, days_in_range, pc, error>>
    /\ UNCHANGED <<sideVars, aggregatorVars, handlerVars>>

\* line 120
ReturnRecommendations ==
    /\ pc = "loop"
    /\ index = Len(all_ingredients)
    /\ pc' = "done"
    /\ UNCHANGED <<inputs, days_in_range, recommendations, index, error>>
    /\ UNCHANGED <<sideVars, aggregatorVars, handlerVars>>

Next ==
    \/ Call
    \/ RaiseInvalidRange
    \/ EnterLoop
    \/ RaiseMissingId
    \/ RaiseFloatOverflow
    \/ RaiseInvalidLeadTime
    \/ AppendRecommendation
    \/ ReturnRecommendations

Spec == Init /\ [][Next]_vars

-----------------------------------------------------------------------------
(* Properties of the recommendations.                                      *)

Emitted == {recommendations[i] : i \in 1..Len(recommendations)}

Terminated == pc \in {"done", "error"}

\* The recommendations of the list a successful call has returned
Returned == IF pc = "done" THEN Emitted ELSE {}

\* A recommendation computed from quantities a restaurant can have: the call kept
\* to its contract (reorder cycle >= 0) and no stock or lead time is negative
Plausible(r) ==
    /\ reorder_cycle_days >= 0
    /\ r.lead_time_days >= 0
    /\ RLe(RZero, r.current_stock)
    /\ RLe(RZero, r.safety_stock)
    /\ RLe(RZero, r.total_quantity_consumed)

\* The id is a key of the consumption dict in neither spelling
AbsentFromConsumption(id) ==
    /\ ~HasKey(consumption_data, id)
    /\ ~HasKey(consumption_data, PyStr(id))

\* C1: every recommendation the loop emits has recommended_order_quantity >= 0,
\* whatever the stock, safety stock, consumption, lead time and reorder cycle.
C1_QuantityNeverNegative ==
    \A r \in Emitted : RLe(RZero, r.recommended_order_quantity)

\* C1 witness: a returned recommendation whose stock exceeds need plus safety stock
C1_Witness ==
    /\ pc = "done"
    /\ \E r \in Emitted :
          /\ Plausible(r)
          /\ RLt(RZero, r.projected_need)
          /\ RLt(RAdd(r.projected_need, r.safety_stock), r.current_stock)
          /\ r.recommended_order_quantity = RZero

\* C2 as stated: an ingredient absent from the consumption dict is NO_DATA with
\* quantity 0, no coverage and no consumption, whatever its stock values (read
\* here over plausible quantities only, which is all the refutation needs).
C2_AbsentMeansZeroQuantity ==
    \A r \in Returned :
        (AbsentFromConsumption(r.ingredient_id) /\ Plausible(r)) =>
            /\ r.status = "NO_DATA"
            /\ r.recommended_order_quantity = RZero
            /\ r.coverage_days = None
            /\ r.total_quantity_consumed = RZero

\* C2 amended: an ingredient absent from the consumption dict is NO_DATA with no
\* coverage and no consumption, and its quantity is max(0, safety_stock -
\* current_stock): 0 exactly when the safety stock does not exceed the stock.
C2_AbsentMeansNoData ==
    \A r \in Emitted :
        AbsentFromConsumption(r.ingredient_id) =>
            /\ r.status = "NO_DATA"
            /\ r.coverage_days = None
            /\ r.total_quantity_consumed = RZero
            /\ r.recommended_order_quantity =
                   (IF RLt(r.current_stock, r.safety_stock)
                    THEN RSub(r.safety_stock, r.current_stock)
                    ELSE RZero)

\* C2 witness: a returned NO_DATA recommendation whose safety stock exceeds its stock
C2_Witness ==
    /\ pc = "done"
    /\ \E r \in Emitted :
          /\ Plausible(r)
          /\ AbsentFromConsumption(r.ingredient_id)
          /\ RLt(r.current_stock, r.safety_stock)
          /\ RLt(RZero, r.recommended_order_quantity)

\* The ordered list of C3, read off the fields of a recommendation
C3_FirstMatch(r) ==
    IF _lookup(consumption_data, r.ingredient_id) = None THEN "NO_DATA"
    ELSE IF RLe(r.recommended_order_quantity, RZero) THEN "OK"
    ELSE IF r.coverage_days = None THEN "LOW"
    ELSE IF RLe(r.coverage_days, RInt(r.lead_time_days)) THEN "CRITICAL"
    ELSE IF RLe(r.coverage_days, RInt(r.planning_horizon_days)) THEN "LOW"
    ELSE "OK"

\* C3: the status of every recommendation is the first match of NO_DATA (no
\* consumption data), OK (quantity <= 0), LOW (no coverage), CRITICAL (coverage <=
\* lead time), LOW (coverage <= planning horizon), OK; with data, a positive
\* quantity and lead time < coverage <= horizon the status is LOW.
C3_StatusIsFirstMatch ==
    \A r \in Emitted :
        /\ r.status = C3_FirstMatch(r)
        /\ (/\ _lookup(consumption_data, r.ingredient_id) # None
            /\ RLt(RZero, r.recommended_order_quantity)
            /\ r.coverage_days # None
            /\ RLt(RInt(r.lead_time_days), r.coverage_days)
            /\ RLe(r.coverage_days, RInt(r.planning_horizon_days)))
           => r.status = "LOW"

\* C3 witness: a returned LOW whose coverage lies between lead time and horizon
C3_Witness ==
    /\ pc = "done"
    /\ \E r \in Emitted :
          /\ Plausible(r)
          /\ r.status = "LOW"
          /\ r.coverage_days # None
          /\ RLt(RInt(r.lead_time_days), r.coverage_days)
          /\ RLe(r.coverage_days, RInt(r.planning_horizon_days))

\* C4: a CRITICAL recommendation has a coverage, and it is <= its lead time.
C4_CriticalHasShortCoverage ==
    \A r \in Emitted :
        r.status = "CRITICAL" =>
            /\ r.coverage_days # None
            /\ RLe(r.coverage_days, RInt(r.lead_time_days))

\* C4 witness: a returned CRITICAL recommendation
C4_Witness ==
    /\ pc = "done"
    /\ \E r \in Emitted :
          /\ Plausible(r)
          /\ r.status = "CRITICAL"
          /\ r.coverage_days # None
          /\ RLt(RZero, r.coverage_days)

\* C5: an OK recommendation has quantity 0 or a coverage above its planning horizon.
C5_OkIsCovered ==
    \A r \in Emitted :
        r.status = "OK" =>
            \/ r.recommended_order_quantity = RZero
            \/ /\ r.coverage_days # None
               /\ RLt(RInt(r.planning_horizon_days), r.coverage_days)

\* C5 witness: a returned OK recommendation that still orders something
C5_Witness ==
    /\ pc = "done"
    /\ \E r \in Emitted :
          /\ Plausible(r)
          /\ r.status = "OK"
          /\ RLt(RZero, r.recommended_order_quantity)
          /\ r.coverage_days # None

\* The lead time C6 prescribes for the i-th catalog entry
C6_Prescribed(i) ==
    LET ingredient == all_ingredients[i]
        override == _lookup(supplier_data, _coerce_uuid(ingredient.id))
        supplier == IF override # None /\ _coerce_uuid(override.supplier_id) # None
                    THEN _coerce_uuid(override.supplier_id)
                    ELSE _coerce_uuid(ingredient.default_supplier_id)
        entry == IF supplier = None THEN None
                 ELSE _lookup(default_supplier_data, supplier)
    IN  IF override # None /\ override.lead_time_days # None
        THEN override.lead_time_days.v
        ELSE IF entry # None /\ entry.default_lead_time_days # None
        THEN entry.default_lead_time_days.v
        ELSE default_lead_time_days

\* C6: for each ingredient on its own, lead_time_days is the override's lead time
\* when the override carries one (0 included), else the default lead time of the
\* resolved supplier's directory entry when there is one, else the global default.
C6_LeadTimePriority ==
    \A i \in 1..Len(recommendations) :
        recommendations[i].lead_time_days = C6_Prescribed(i)

\* C6 witness: two returned ingredients of one supplier, one with an override of 0
\* days and one without override, resolved to 0 and to the supplier's default
C6_Witness ==
    /\ pc = "done"
    /\ \E i, j \in 1..Len(recommendations) :
          /\ all_ingredients[i].default_supplier_id # None
          /\ all_ingredients[i].default_supplier_id = all_ingredients[j].default_supplier_id
          /\ _lookup(supplier_data, recommendations[i].ingredient_id) # None
          /\ _lookup(supplier_data, recommendations[i].ingredient_id).lead_time_days = Num(0)
          /\ _lookup(supplier_data, recommendations[j].ingredient_id) = None
          /\ recommendations[i].lead_time_days = 0
          /\ recommendations[j].lead_time_days = MaxLead + 1
          /\ default_lead_time_days # MaxLead + 1

Malformed(i) == _coerce_uuid(all_ingredients[i].id) = None

HasMalformedEntry == \E i \in 1..Len(all_ingredients) : Malformed(i)

FirstMalformed ==
    CHOOSE i \in 1..Len(all_ingredients) :
        Malformed(i) /\ \A j \in 1..(i - 1) : ~Malformed(j)

\* C7: whenever date_to < date_from the call ends in the invalid-range error with
\* no catalog entry examined and no recommendation produced, whatever the catalog.
C7_InvalidRangeFirst ==
    (date_to < date_from /\ pc \notin {"idle", "check"}) =>
        /\ pc = "error"
        /\ error = "invalid_range"
        /\ index = 0
        /\ recommendations = <<>>

\* C7 witness: the invalid-range error on a catalog whose first entry has no id
C7_Witness ==
    /\ pc = "error"
    /\ error = "invalid_range"
    /\ Len(all_ingredients) >= 1
    /\ Malformed(1)

\* C8 as stated: a catalog entry without identity, wherever it sits, makes the
\* call fail with the malformed-input error before any per-ingredient work (read
\* here for calls that no other error ended).
C8_FailsBeforeAnyWork ==
    (HasMalformedEntry /\ Terminated /\ error \notin {"invalid_range", "invalid_int"}) =>
        /\ error = "missing_id"
        /\ recommendations = <<>>

\* C8 amended: a catalog entry without identity keeps the call from returning;
\* the loop takes the entries in order, so the malformed-input error is raised
\* when the loop reaches the first such entry, after a recommendation was computed
\* for each entry before it, unless an earlier entry already failed; no entry
\* after it is examined.
C8_FailsAtFirstMalformed ==
    HasMalformedEntry =>
        /\ pc # "done"
        /\ index <= FirstMalformed
        /\ (pc = "error" /\ error = "missing_id") =>
               /\ index = FirstMalformed
               /\ Len(recommendations) = FirstMalformed - 1
        /\ (pc = "error" /\ error = "invalid_int") => index < FirstMalformed
        /\ (pc = "error" /\ error = "invalid_range") => date_to < date_from

\* C8 witness: the malformed-input error raised after recommendations were computed
C8_Witness ==
    /\ pc = "error"
    /\ error = "missing_id"
    /\ Len(recommendations) >= 1
    /\ FirstMalformed < Len(all_ingredients)

\* C9: on success the output has the length of the catalog and its i-th
\* recommendation carries the id of the i-th catalog entry.
C9_OnePerEntryInOrder ==
    pc = "done" =>
        /\ Len(recommendations) = Len(all_ingredients)
        /\ \A i \in 1..Len(all_ingredients) :
               recommendations[i].ingredient_id = _coerce_uuid(all_ingredients[i].id)

\* C9 witness: a returned list for a catalog that names one ingredient twice
C9_Witness ==
    /\ pc = "done"
    /\ Len(all_ingredients) >= 3
    /\ \E i, j \in 1..Len(all_ingredients) :
          /\ i < j
          /\ all_ingredients[i].id # all_ingredients[j].id
          /\ recommendations[i].ingredient_id = recommendations[j].ingredient_id
    /\ \E i, j \in 1..Len(all_ingredients) :
          recommendations[i].ingredient_id # recommendations[j].ingredient_id

\* The other spelling of a key: the UUID for its canonical text and conversely
OtherForm(k) == IF k.t = "uuid" THEN PyStr(k) ELSE Uuid(k.n)

\* A key held in one of the two spellings, the other one not being a key as well
Swappable(mapping, k) ==
    /\ k \in Keys(mapping)
    /\ k.t = "uuid" \/ (k.t = "uuidtext" /\ k.canonical)
    /\ OtherForm(k) \notin Keys(mapping)

Rekey(mapping, k) ==
    Dict([x \in (DOMAIN mapping.items \ {k}) \cup {OtherForm(k)} |->
              IF x = OtherForm(k) THEN mapping.items[k] ELSE mapping.items[x]])

\* The catalog with the id of its i-th entry written as the value id
Respell(catalog, i, id) == [catalog EXCEPT ![i].id = id]

\* What the call that ended has produced
Observed ==
    [raised |-> error, value |-> IF pc = "done" THEN recommendations ELSE <<>>]

Rerun(catalog, consumed, stock, overrides, directory) ==
    compute_purchase_recommendations(catalog, consumed, stock, overrides, directory,
        date_from, date_to, reorder_cycle_days, default_lead_time_days)

\* C10: the outcome of a call is the one obtained with any key of the consumption,
\* stock, override or directory dict replaced by its other spelling (typed id or
\* its string serialization), and with any catalog id written in the other form.
C10_KeyFormIrrelevant ==
    Terminated =>
        /\ \A k \in Keys(consumption_data) :
               Swappable(consumption_data, k) =>
                   Rerun(all_ingredients, Rekey(consumption_data, k), stock_data,
                         supplier_data, default_supplier_data) = Observed
        /\ \A k \in Keys(stock_data) :
               Swappable(stock_data, k) =>
                   Rerun(all_ingredients, consumption_data, Rekey(stock_data, k),
                         supplier_data, default_supplier_data) = Observed
        /\ \A k \in Keys(supplier_data) :
               Swappable(supplier_data, k) =>
                   Rerun(all_ingredients, consumption_data, stock_data,
                         Rekey(supplier_data, k), default_supplier_data) = Observed
        /\ \A k \in Keys(default_supplier_data) :
               Swappable(default_supplier_data, k) =>
                   Rerun(all_ingredients, consumption_data, stock_data,
                         supplier_data, Rekey(default_supplier_data, k)) = Observed
        /\ \A i \in 1..Len(all_ingredients) :
               all_ingredients[i].id.t \in {"uuid", "uuidtext"} =>
                   \A id \in KeyForms(all_ingredients[i].id.n) :
                       Rerun(Respell(all_ingredients, i, id), consumption_data,
                             stock_data, supplier_data, default_supplier_data) = Observed

\* C10 witness: a returned recommendation computed from a catalog id given as
\* text, consumption, override and directory keyed by text and stock keyed by UUID
C10_Witness ==
    /\ pc = "done"
    /\ Len(recommendations) = 1
    /\ all_ingredients[1].id = UuidText(1, TRUE)
    /\ Keys(consumption_data) = {UuidText(1, TRUE)}
    /\ Keys(stock_data) = {Uuid(1)}
    /\ Keys(supplier_data) = {UuidText(1, TRUE)}
    /\ Keys(default_supplier_data) = {UuidText(1, TRUE)}
    /\ recommendations[1].status # "NO_DATA"
    /\ recommendations[1].current_stock # RZero
    /\ recommendations[1].default_supplier # None

-----------------------------------------------------------------------------
(* Missing and invalid optional data.                                      *)

\* C11: an ingredient has consumption data exactly when its id is a key of the
\* consumption dict in one of the two spellings, whatever the value under the
\* key: a returned recommendation is NO_DATA if and only if the id is no key.
C11_PresentKeyIsData ==
    \A r \in Returned :
        Plausible(r) =>
            ((r.status = "NO_DATA") <=> AbsentFromConsumption(r.ingredient_id))

\* The float a stock field is documented to read as: the number, or 0.0 when
\* the field is missing or is no number
C12_Documented(value) == IF value.t = "num" THEN RInt(value.v) ELSE RZero

\* The stock entry of the i-th catalog entry, None when there is none
C12_StockEntry(i) == _lookup(stock_data, _coerce_uuid(all_ingredients[i].id))

\* C12: a call that fails neither on its date range, nor on a catalog id, nor on
\* a lead time returns one recommendation per entry, whose current_stock and
\* safety_stock are the stock entry's numbers, 0.0 standing for a dict passed as
\* None, a missing entry and a missing or invalid value.
C12_OptionalDataDefaults ==
    (Terminated /\ error \notin {"invalid_range", "missing_id", "invalid_int"}) =>
        /\ pc = "done"
        /\ Len(recommendations) = Len(all_ingredients)
        /\ \A i \in 1..Len(recommendations) :
               LET entry == C12_StockEntry(i)
               IN  /\ recommendations[i].current_stock =
                          (IF entry = None THEN RZero
                           ELSE C12_Documented(entry.current_stock))
                   /\ recommendations[i].safety_stock =
                          (IF entry = None THEN RZero
                           ELSE C12_Documented(entry.safety_stock))

\* C13: the resolver has no error path: whatever the override and the directory
\* hold, no call ends in an exception raised while a lead time is resolved.
C13_ResolverNeverFails ==
    ~(pc = "error" /\ error = "invalid_int")

\* The supplier identity C14 prescribes for the i-th catalog entry
C14_Identity(i) ==
    LET override == _lookup(supplier_data, _coerce_uuid(all_ingredients[i].id))
        own == IF override = None THEN None ELSE _coerce_uuid(override.supplier_id)
    IN  IF own # None THEN own ELSE _coerce_uuid(all_ingredients[i].default_supplier_id)

\* The supplier name C14 prescribes for the i-th catalog entry, None when neither
\* the override nor the directory entry of the identity gives one
C14_Name(i) ==
    LET override == _lookup(supplier_data, _coerce_uuid(all_ingredients[i].id))
        entry == _lookup(default_supplier_data, C14_Identity(i))
    IN  IF override # None /\ override.supplier_name \notin {None, Str("")}
        THEN override.supplier_name
        ELSE IF entry # None THEN entry.name
        ELSE None

\* C14: default_supplier carries the override's supplier id, else the catalog
\* entry's default supplier id, with the override's cached name, else the name of
\* that supplier's directory entry; it is None whenever the id or a non-empty
\* name is missing.
C14_SupplierReference ==
    \A i \in 1..Len(recommendations) :
        recommendations[i].default_supplier =
            (IF C14_Identity(i) # None /\ C14_Name(i) \notin {None, Str("")}
             THEN [id |-> C14_Identity(i), name |-> C14_Name(i).v]
             ELSE None)

\* C14 witness: a returned recommendation whose override names another supplier
\* than the catalog entry and caches an empty name, reported with the override's
\* supplier and the directory's name
C14_Witness ==
    /\ pc = "done"
    /\ Len(recommendations) = 1
    /\ _lookup(supplier_data, recommendations[1].ingredient_id) # None
    /\ _lookup(supplier_data, recommendations[1].ingredient_id).supplier_name = Str("")
    /\ all_ingredients[1].default_supplier_id # None
    /\ recommendations[1].default_supplier # None
    /\ recommendations[1].default_supplier.id # all_ingredients[1].default_supplier_id
    /\ recommendations[1].default_supplier.name = "Main Supplier"

-----------------------------------------------------------------------------
(* SupabasePurchasingDAO.fetch_historical_orders_and_recipes, lines 396-452 *)
(* of routes/purchasing.py.  Quantities are floats with integral values,   *)
(* written as integers.                                                     *)

NumMenuItems == 6
MaxOrders == 2
MaxRecipes == 2
MaxQuantity == 2
MaxPerUnit == 2

\* the [:5] of lines 446 and 1437
TopLimit == 5

OrderRow(m, q) == [menu_item_id |-> m, quantity |-> q]
RecipeRow(m, i, q) == [menu_item_id |-> m, ingredient_id |-> i, quantity_per_unit |-> q]
MenuItemRow(id, display_name, name) == [id |-> id, display_name |-> display_name, name |-> name]

\* float(value or 0), lines 426 and 433
FloatOrZero(value) == IF Truthy(value) THEN value.v ELSE 0

Least(S) == CHOOSE x \in S : \A y \in S : x <= y

\* lines 402-404 for one recipe row
RecipeMapAfter(map, recipe) ==
    IF ~Truthy(recipe.menu_item_id) THEN map
    ELSE LET key == PyStr(recipe.menu_item_id)
         IN  IF key \in DOMAIN map
             THEN [map EXCEPT ![key] = Append(@, recipe)]
             ELSE map @@ (key :> <<recipe>>)

\* lines 400-404: the loop over the recipe rows from row i on
RECURSIVE RecipeMapFrom(_, _, _)
RecipeMapFrom(i, map, rows) ==
    IF i > Len(rows) THEN map
    ELSE RecipeMapFrom(i + 1, RecipeMapAfter(map, rows[i]), rows)

\* lines 414-418: the loop over the menu item rows from row i on
RECURSIVE MenuItemNamesFrom(_, _, _)
MenuItemNamesFrom(i, names, rows) ==
    IF i > Len(rows) THEN names
    ELSE LET item == rows[i]
             shown == IF Truthy(item.display_name) THEN item.display_name.v
                      ELSE IF Truthy(item.name) THEN item.name.v
                      ELSE "Plat"
             key == PyStr(item.id)
             next == IF ~Truthy(item.id) THEN names
                     ELSE IF key \in DOMAIN names THEN [names EXCEPT ![key] = shown]
                     ELSE names @@ (key :> shown)
         IN  MenuItemNamesFrom(i + 1, next, rows)

\* recipe_map.get(key, []), line 431
RecipesOf(map, key) == IF key \in DOMAIN map THEN map[key] ELSE <<>>

\* menu_totals[key] += quantity on a defaultdict(float), line 429: a new key
\* goes behind the keys already held
MenuTotalsAfter(totals, key, quantity) ==
    IF \E p \in 1..Len(totals) : totals[p].menu_item_id = key
    THEN [p \in 1..Len(totals) |->
             IF totals[p].menu_item_id = key
             THEN [totals[p] EXCEPT !.quantity = @ + quantity]
             ELSE totals[p]]
    ELSE Append(totals, [menu_item_id |-> key, quantity |-> quantity])

\* Faulty variant: the recipe line's quantity is added once per order row,
\* whatever the quantity ordered
ConsumptionAfterPerRow(consumed, recipe, quantity) ==
    LET qty_per_unit == FloatOrZero(recipe.quantity_per_unit)
        key == PyStr(recipe.ingredient_id)
    IN  IF ~Truthy(recipe.ingredient_id) \/ qty_per_unit <= 0 THEN consumed
        ELSE IF key \in DOMAIN consumed
        THEN [consumed EXCEPT ![key] = @ + qty_per_unit]
        ELSE consumed @@ (key :> qty_per_unit)

\* Faulty variant: a recipe row is used whatever its quantity per unit
ConsumptionAfterAnyQuantity(consumed, recipe, quantity) ==
    LET qty_per_unit == FloatOrZero(recipe.quantity_per_unit)
        key == PyStr(recipe.ingredient_id)
    IN  IF ~Truthy(recipe.ingredient_id) THEN consumed
        ELSE IF key \in DOMAIN consumed
        THEN [consumed EXCEPT ![key] = @ + quantity * qty_per_unit]
        ELSE consumed @@ (key :> quantity * qty_per_unit)

\* lines 432-436 for one recipe row of the menu item ordered
ConsumptionAfter(consumed, recipe, quantity) ==
    LET qty_per_unit == FloatOrZero(recipe.quantity_per_unit)
        key == PyStr(recipe.ingredient_id)
    IN  IF ~Truthy(recipe.ingredient_id) \/ qty_per_unit <= 0 THEN consumed
        ELSE IF key \in DOMAIN consumed
        THEN [consumed EXCEPT ![key] = @ + quantity * qty_per_unit]
        ELSE consumed @@ (key :> quantity * qty_per_unit)

\* lines 431-436: the loop over the recipe rows of the menu item from row i on
RECURSIVE ConsumptionFrom(_, _, _, _)
ConsumptionFrom(i, consumed, rows, quantity) ==
    IF i > Len(rows) THEN consumed
    ELSE ConsumptionFrom(i + 1, ConsumptionAfter(consumed, rows[i], quantity),
                         rows, quantity)

\* Faulty variant: among equal keys the later one is put first
InsertByKeyBeforeEqual(order, p, keys) ==
    LET smaller == {q \in 1..Len(order) : RLe(keys[order[q]], keys[p])}
        at == IF smaller = {} THEN Len(order) + 1 ELSE Least(smaller)
    IN  SubSeq(order, 1, at - 1) \o <<p>> \o SubSeq(order, at, Len(order))

\* One step of a stable descending sort: position p goes in front of the first
\* position whose key is smaller, behind every position whose key is equal
InsertByKey(order, p, keys) ==
    LET smaller == {q \in 1..Len(order) : RLt(keys[order[q]], keys[p])}
        at == IF smaller = {} THEN Len(order) + 1 ELSE Least(smaller)
    IN  SubSeq(order, 1, at - 1) \o <<p>> \o SubSeq(order, at, Len(order))

RECURSIVE SortedReverseFrom(_, _, _)
SortedReverseFrom(p, order, keys) ==
    IF p > Len(keys) THEN order
    ELSE SortedReverseFrom(p + 1, InsertByKey(order, p, keys), keys)

\* sorted(items, key=..., reverse=True), lines 445 and 1425-1437, as the list of
\* the positions of the items in the order of the result; keys[p] is the key of
\* the p-th item
SortedReverse(keys) == SortedReverseFrom(1, <<>>, keys)

\* seq[:n]
Head_(seq, n) == SubSeq(seq, 1, IF Len(seq) < n THEN Len(seq) ELSE n)

\* lines 439-446
TopMenuItems(totals, names) ==
    LET ranked == SortedReverse([p \in 1..Len(totals) |-> RInt(totals[p].quantity)])
        entries == [k \in 1..Len(ranked) |->
                       LET menu_id == totals[ranked[k]].menu_item_id
                       IN  [menu_item_id |-> menu_id,
                            menu_item_name |-> IF menu_id \in DOMAIN names
                                               THEN names[menu_id] ELSE "Plat",
                            quantity |-> totals[ranked[k]].quantity]]
    IN  Head_(entries, TopLimit)

\* A menu item id as the order and recipe rows of the database carry it
MenuId(m) == UuidText(m, TRUE)

\* What the menu_items table may answer: nothing, or a row for items 1 to 3,
\* with a display name, with a name only, with neither
MenuItemRowsChoices ==
    {<<>>,
     <<MenuItemRow(MenuId(1), Str("Burger maison"), Str("Burger")),
       MenuItemRow(MenuId(2), None, Str("Pizza")),
       MenuItemRow(Uuid(3), None, None)>>}

\* Order rows of every shape over two menu items, without recipe rows or with
\* recipe rows for the first menu item only
OrderInputs ==
    [orders : Lists(MaxOrders,
                    {OrderRow(m, q) : m \in {None, Uuid(1), MenuId(1), MenuId(2)},
                                      q \in {None, Num(-1), Num(1), Num(MaxQuantity)}}),
     recipes : {<<>>,
                <<RecipeRow(MenuId(1), Uuid(1), Num(1)),
                  RecipeRow(Uuid(1), UuidText(2, TRUE), Num(MaxPerUnit))>>}]

\* Recipe rows of every shape over two menu items and two ingredients, against
\* fixed order rows
RecipeInputs ==
    [orders : {<<OrderRow(MenuId(1), Num(1)),
                 OrderRow(MenuId(2), Num(MaxQuantity)),
                 OrderRow(Uuid(1), Num(1))>>},
     recipes : Lists(MaxRecipes,
                     {RecipeRow(m, i, q) :
                          m \in {None, MenuId(1), MenuId(2)},
                          i \in {None, Uuid(1), UuidText(1, TRUE), UuidText(2, TRUE)},
                          q \in {None, Num(-1), Num(1), Num(MaxPerUnit)}})]

\* One order row per menu item, the highest id first, each of quantity 1 or
\* MaxQuantity, with or without a row of quantity 0 for the first menu item in
\* front, and with or without one more row of quantity 1 for one of the items
RankingInputs ==
    [orders : UNION {
         {first \o [k \in 1..NumMenuItems |->
                       OrderRow(MenuId(NumMenuItems + 1 - k), Num(q[k]))] \o extra :
              first \in {<<>>, <<OrderRow(MenuId(1), Num(0))>>},
              extra \in {<<>>} \cup {<<OrderRow(MenuId(m), Num(1))>> : m \in 1..NumMenuItems}} :
         q \in [1..NumMenuItems -> {1, MaxQuantity}]},
     recipes : {<<>>}]

AggregatorInputs == OrderInputs \cup RecipeInputs \cup RankingInputs

\* lines 366-396: the dataset read from the orders and recipes tables
FetchDataset ==
    /\ dao_pc = "idle"
    /\ \E dataset \in AggregatorInputs :
          /\ orders' = dataset.orders
          /\ recipes' = dataset.recipes
    /\ dao_pc' = "fetched"
    /\ UNCHANGED <<menu_items_rows, recipe_map, menu_item_names, consumption,
                   menu_totals, total_dishes, order_index>>
    /\ UNCHANGED <<sideVars, engineVars, handlerVars>>

\* lines 397-398
ReturnNoOrders ==
    /\ dao_pc = "fetched"
    /\ orders = <<>>
    /\ historical' = [consumption |-> <<>>, total_dishes |-> 0, top_menu_items |-> <<>>]
    /\ dao_pc' = "done"
    /\ UNCHANGED <<orders, recipes, menu_items_rows, recipe_map, menu_item_names,
                   consumption, menu_totals, total_dishes, order_index>>
    /\ UNCHANGED <<sideVars, engineVars, handler_pc, dao_returns, summary>>

\* lines 400-404
BuildRecipeMap ==
    /\ dao_pc = "fetched"
    /\ orders # <<>>
    /\ recipe_map' = RecipeMapFrom(1, <<>>, recipes)
    /\ dao_pc' = "mapped"
    /\ UNCHANGED <<orders, recipes, menu_items_rows, menu_item_names, consumption,
                   menu_totals, total_dishes, order_index>>
    /\ UNCHANGED <<sideVars, engineVars, handlerVars>>

\* lines 406-422: the names of the menu items sold are fetched when an order row
\* names a menu item, and the accumulators are set up
NameMenuItems ==
    /\ dao_pc = "mapped"
    /\ \E rows \in MenuItemRowsChoices :
          menu_items_rows' =
              IF \E k \in 1..Len(orders) : Truthy(orders[k].menu_item_id)
              THEN rows ELSE <<>>
    /\ menu_item_names' = MenuItemNamesFrom(1, <<>>, menu_items_rows')
    /\ consumption' = <<>>
    /\ menu_totals' = <<>>
    /\ total_dishes' = 0
    /\ dao_pc' = "orders"
    /\ UNCHANGED <<orders, recipes, recipe_map, order_index>>
    /\ UNCHANGED <<sideVars, engineVars, handlerVars>>

\* Faulty variant: an order row whose menu item has no recipe row is skipped
AggregateOrderWithRecipe ==
    /\ dao_pc = "orders"
    /\ order_index < Len(orders)
    /\ LET order == orders[order_index + 1]
           menu_item_id == order.menu_item_id
           quantity == FloatOrZero(order.quantity)
           key == PyStr(menu_item_id)
       IN  IF ~Truthy(menu_item_id) \/ quantity <= 0 \/ RecipesOf(recipe_map, key) = <<>>
           THEN UNCHANGED <<menu_totals, total_dishes, consumption>>
           ELSE /\ menu_totals' = MenuTotalsAfter(menu_totals, key, quantity)
                /\ total_dishes' = total_dishes + quantity
                /\ consumption' = ConsumptionFrom(1, consumption,
                                      RecipesOf(recipe_map, key), quantity)
    /\ order_index' = order_index + 1
    /\ UNCHANGED <<dao_pc, orders, recipes, menu_items_rows, recipe_map, menu_item_names>>
    /\ UNCHANGED <<sideVars, engineVars, handlerVars>>

\* lines 424-437: one pass of the loop over the order rows
AggregateOrder ==
    /\ dao_pc = "orders"
    /\ order_index < Len(orders)
    /\ LET order == orders[order_index + 1]
           menu_item_id == order.menu_item_id
           quantity == FloatOrZero(order.quantity)
           key == PyStr(menu_item_id)
       IN  IF ~Truthy(menu_item_id) \/ quantity <= 0
           THEN UNCHANGED <<menu_totals, total_dishes, consumption>>
           ELSE /\ menu_totals' = MenuTotalsAfter(menu_totals, key, quantity)
                /\ total_dishes' = total_dishes + quantity
                /\ consumption' = ConsumptionFrom(1, consumption,
                                      RecipesOf(recipe_map, key), quantity)
    /\ order_index' = order_index + 1
    /\ UNCHANGED <<dao_pc, orders, recipes, menu_items_rows, recipe_map, menu_item_names>>
    /\ UNCHANGED <<sideVars, engineVars, handlerVars>>

\* lines 439-452
ReturnAggregate ==
    /\ dao_pc = "orders"
    /\ order_index = Len(orders)
    /\ historical' = [consumption |-> consumption,
                      total_dishes |-> total_dishes,
                      top_menu_items |-> TopMenuItems(menu_totals, menu_item_names)]
    /\ dao_pc' = "done"
    /\ UNCHANGED <<orders, recipes, menu_items_rows, recipe_map, menu_item_names,
                   consumption, menu_totals, total_dishes, order_index>>
    /\ UNCHANGED <<sideVars, engineVars, handler_pc, dao_returns, summary>>

NextAggregator ==
    \/ FetchDataset
    \/ ReturnNoOrders
    \/ BuildRecipeMap
    \/ NameMenuItems
    \/ AggregateOrder
    \/ ReturnAggregate

SpecAggregator == Init /\ [][NextAggregator]_vars

-----------------------------------------------------------------------------
(* Properties of the aggregated history.                                   *)

RECURSIVE SumSeq(_)
SumSeq(seq) == IF seq = <<>> THEN 0 ELSE Head(seq) + SumSeq(Tail(seq))

\* The k-th order row names a menu item and has a quantity > 0
QualifyingOrder(k) ==
    /\ orders[k].menu_item_id # None
    /\ orders[k].quantity # None
    /\ orders[k].quantity.v > 0

\* The k-th order row and the j-th recipe row are a qualifying pair for
\* ingredient n
QualifyingPair(k, j, n) ==
    /\ QualifyingOrder(k)
    /\ recipes[j].menu_item_id # None
    /\ recipes[j].menu_item_id.n = orders[k].menu_item_id.n
    /\ recipes[j].ingredient_id # None
    /\ recipes[j].ingredient_id.n = n
    /\ recipes[j].quantity_per_unit # None
    /\ recipes[j].quantity_per_unit.v > 0

\* Sum over the qualifying pairs of ingredient n of quantity x quantity_per_unit
Consumed(n) ==
    SumSeq([k \in 1..Len(orders) |->
               SumSeq([j \in 1..Len(recipes) |->
                          IF QualifyingPair(k, j, n)
                          THEN orders[k].quantity.v * recipes[j].quantity_per_unit.v
                          ELSE 0])])

\* Sum of the quantities of the qualifying order rows of menu item m
Sold(m) ==
    SumSeq([k \in 1..Len(orders) |->
               IF QualifyingOrder(k) /\ orders[k].menu_item_id.n = m
               THEN orders[k].quantity.v ELSE 0])

\* The menu items with a qualifying order row
SoldItems == {orders[k].menu_item_id.n : k \in {q \in 1..Len(orders) : QualifyingOrder(q)}}

\* The first qualifying order row of menu item m
FirstSold(m) ==
    Least({k \in 1..Len(orders) : QualifyingOrder(k) /\ orders[k].menu_item_id.n = m})

\* C15: the consumption map returned holds, under each ingredient's id, the sum
\* over the qualifying pairs (order row with a menu item and quantity > 0, recipe
\* row of that menu item with quantity_per_unit > 0) of quantity x
\* quantity_per_unit, and holds no key for an ingredient without such a pair.
C15_ConsumptionIsSumOfPairs ==
    dao_pc = "done" =>
        /\ \A n \in IngredientNumbers :
               IF \E k \in 1..Len(orders), j \in 1..Len(recipes) : QualifyingPair(k, j, n)
               THEN /\ UuidText(n, TRUE) \in DOMAIN historical.consumption
                    /\ historical.consumption[UuidText(n, TRUE)] = Consumed(n)
               ELSE UuidText(n, TRUE) \notin DOMAIN historical.consumption
        /\ DOMAIN historical.consumption \subseteq
               {UuidText(n, TRUE) : n \in IngredientNumbers}

\* C15 witness: an ingredient given as a UUID consumed through two order rows
\* that write the menu item's id differently, next to a recipe row whose
\* ingredient gets no key
C15_Witness ==
    /\ dao_pc = "done"
    /\ \E n \in IngredientNumbers :
          /\ \E k1, k2 \in 1..Len(orders), j1 \in 1..Len(recipes) :
                /\ QualifyingPair(k1, j1, n)
                /\ QualifyingPair(k2, j1, n)
                /\ orders[k1].menu_item_id # orders[k2].menu_item_id
                /\ recipes[j1].ingredient_id = Uuid(n)
          /\ historical.consumption[UuidText(n, TRUE)] > MaxPerUnit
    /\ \E j \in 1..Len(recipes) :
          /\ recipes[j].ingredient_id # None
          /\ PyStr(recipes[j].ingredient_id) \notin DOMAIN historical.consumption

\* Whether some recipe row belongs to menu item m
HasRecipe(m) ==
    \E j \in 1..Len(recipes) :
        recipes[j].menu_item_id # None /\ recipes[j].menu_item_id.n = m

\* C16: total_dishes is the sum of the quantities of the order rows that name a
\* menu item and have a quantity > 0, with or without recipe rows; every menu
\* item sold has its whole quantity in its leaderboard total; when no menu item
\* sold has a recipe row nothing is consumed; and without a qualifying order row
\* the result is an empty consumption map, total_dishes = 0 and no top_menu_items.
C16_TotalDishesCountsEveryOrder ==
    dao_pc = "done" =>
        /\ historical.total_dishes =
               SumSeq([k \in 1..Len(orders) |->
                          IF QualifyingOrder(k) THEN orders[k].quantity.v ELSE 0])
        /\ \A m \in SoldItems :
               \E p \in 1..Len(menu_totals) :
                   /\ menu_totals[p].menu_item_id = MenuId(m)
                   /\ menu_totals[p].quantity = Sold(m)
        /\ (\A m \in SoldItems : ~HasRecipe(m)) => historical.consumption = <<>>
        /\ SoldItems = {} =>
               /\ historical.consumption = <<>>
               /\ historical.total_dishes = 0
               /\ historical.top_menu_items = <<>>

\* C16 witness: a menu item sold without recipe row, counted in total_dishes and
\* listed with its quantity, next to a menu item whose recipe consumed something
C16_Witness ==
    /\ dao_pc = "done"
    /\ historical.consumption # <<>>
    /\ \E m \in SoldItems :
          /\ ~HasRecipe(m)
          /\ historical.total_dishes > Sold(m)
          /\ \E p \in 1..Len(historical.top_menu_items) :
                /\ historical.top_menu_items[p].menu_item_id = MenuId(m)
                /\ historical.top_menu_items[p].quantity = Sold(m)

\* The first order row that names menu item m, with whatever quantity
FirstSeen(m) ==
    Least({k \in 1..Len(orders) :
               orders[k].menu_item_id # None /\ orders[k].menu_item_id.n = m})

\* top_menu_items has at most 5 entries, each a menu item with a qualifying order
\* row, no menu item twice, in descending order of the quantity sold; no menu
\* item left out sold strictly more than one listed; and of two listed menu
\* items that sold the same, the one with the smaller first[m] is listed first
RankedWithTiesBy(first) ==
    LET top == historical.top_menu_items
    IN  /\ Len(top) <= TopLimit
        /\ \A p \in 1..Len(top) :
               /\ top[p].menu_item_id.n \in SoldItems
               /\ top[p].quantity = Sold(top[p].menu_item_id.n)
        /\ \A p, q \in 1..Len(top) :
               p < q =>
                   /\ top[p].menu_item_id # top[q].menu_item_id
                   /\ top[p].quantity >= top[q].quantity
                   /\ top[p].quantity = top[q].quantity =>
                          first[top[p].menu_item_id.n] < first[top[q].menu_item_id.n]
        /\ \A m \in SoldItems :
               (\A p \in 1..Len(top) : top[p].menu_item_id.n # m) =>
                   \A p \in 1..Len(top) : Sold(m) <= top[p].quantity

\* C17 as stated: top_menu_items has at most 5 entries, only menu items with a
\* qualifying order row, in descending order of the quantity sold, none left out
\* having sold strictly more than one listed, and menu items that sold the same
\* in the order in which they first appear in the order rows.
C17_TiesByFirstAppearance ==
    dao_pc = "done" => RankedWithTiesBy([m \in SoldItems |-> FirstSeen(m)])

\* C17 amended: the same, menu items that sold the same being in the order of
\* their first qualifying order row (an order row without a quantity > 0 does not
\* count as an appearance).
C17_TiesByFirstSale ==
    dao_pc = "done" => RankedWithTiesBy([m \in SoldItems |-> FirstSold(m)])

\* C17 witness: more than 5 menu items sold, 5 listed, two of them with the same
\* quantity, and a menu item left out that sold as much as the last one listed,
\* the order rows starting with one that does not qualify
C17_Witness ==
    /\ dao_pc = "done"
    /\ Cardinality(SoldItems) > TopLimit
    /\ ~QualifyingOrder(1)
    /\ Len(historical.top_menu_items) = TopLimit
    /\ \E p, q \in 1..TopLimit :
          /\ p < q
          /\ historical.top_menu_items[p].quantity = historical.top_menu_items[q].quantity
    /\ historical.top_menu_items[1].quantity > historical.top_menu_items[TopLimit].quantity
    /\ \E m \in SoldItems :
          /\ \A p \in 1..TopLimit : historical.top_menu_items[p].menu_item_id.n # m
          /\ Sold(m) = historical.top_menu_items[TopLimit].quantity

-----------------------------------------------------------------------------
(* The handler purchasing_summary, lines 1397-1463 of routes/purchasing.py. *)

SummaryCatalog == 6

\* Faulty variant: only the first recommendations, as many as are listed, are
\* counted
StatusCountOfFirst(recs, status) ==
    Cardinality({i \in 1..Len(recs) : i <= TopLimit /\ recs[i].status = status})

\* Counter(rec.status for rec in recommendations).get(status, 0)
StatusCount(recs, status) ==
    Cardinality({i \in 1..Len(recs) : recs[i].status = status})

\* Faulty variant: ingredients that need no reorder are left out
TopIngredientsToReorder(recs) ==
    LET needed == SelectSeq(recs, LAMBDA rec : RLt(RZero, rec.recommended_order_quantity))
        ranked == SortedReverse([p \in 1..Len(needed) |-> needed[p].recommended_order_quantity])
        entries == [k \in 1..Len(ranked) |->
                       [ingredient_id |-> needed[ranked[k]].ingredient_id,
                        status |-> needed[ranked[k]].status,
                        recommended_order_quantity |->
                            needed[ranked[k]].recommended_order_quantity]]
    IN  Head_(entries, TopLimit)

\* lines 1425-1437
TopIngredients(recs) ==
    LET ranked == SortedReverse([p \in 1..Len(recs) |-> recs[p].recommended_order_quantity])
        entries == [k \in 1..Len(ranked) |->
                       [ingredient_id |-> recs[ranked[k]].ingredient_id,
                        status |-> recs[ranked[k]].status,
                        recommended_order_quantity |->
                            recs[ranked[k]].recommended_order_quantity]]
    IN  Head_(entries, TopLimit)

\* lines 1439-1447
TopMenuItemsPayload(payload) ==
    LET kept == Head_(payload, TopLimit)
    IN  [k \in 1..Len(kept) |->
            [menu_item_id |-> _coerce_uuid(kept[k].menu_item_id),
             menu_item_name |-> IF Truthy(kept[k].menu_item_name)
                                THEN kept[k].menu_item_name.v ELSE "",
             quantity_sold |-> RInt(FloatOrZero(kept[k].quantity))]]

\* sum(float(value or 0) for value in consumption.values()), line 1451
RECURSIVE SumOfValues(_, _)
SumOfValues(mapping, keys) ==
    IF keys = {} THEN 0
    ELSE LET k == CHOOSE x \in keys : TRUE
         IN  FloatOrZero(mapping.items[k]) + SumOfValues(mapping, keys \ {k})

\* Faulty variant: a total_dishes of 0 is taken for a missing one
TotalDishesSoldUnlessZero(reported, consumed) ==
    LET total == IF ~Truthy(reported)
                 THEN Num(SumOfValues(consumed, Keys(consumed)))
                 ELSE reported
    IN  RInt(FloatOrZero(total))

\* lines 1449-1456
TotalDishesSold(reported, consumed) ==
    LET total == IF reported = None
                 THEN Num(SumOfValues(consumed, Keys(consumed)))
                 ELSE reported
    IN  RInt(FloatOrZero(total))

\* lines 1424-1463: the response built from the recommendations
Summary(recs, history, consumed, from, to) ==
    [date_from |-> from,
     date_to |-> to,
     total_dishes_sold |-> TotalDishesSold(history.total_dishes, consumed),
     count_low |-> StatusCount(recs, "LOW"),
     count_critical |-> StatusCount(recs, "CRITICAL"),
     count_no_data |-> StatusCount(recs, "NO_DATA"),
     count_ok |-> StatusCount(recs, "OK"),
     top_ingredients |-> TopIngredients(recs),
     top_menu_items |-> TopMenuItemsPayload(history.top_menu_items)]

\* An ingredient id as the rows of the database carry it
IngredientId(n) == UuidText(n, TRUE)

\* Stock that makes an ingredient consumed MaxConsumed in one day CRITICAL, LOW
\* or OK under the default lead time and a reorder cycle of MaxCycle days
StockOfProfile(profile) ==
    CASE profile = "critical" -> StockEntry(Num(0), Num(0))
      [] profile = "low" -> StockEntry(Num(MaxConsumed * (DefaultLeadTimeDays + 1)), Num(0))
      [] profile = "ok" -> StockEntry(Num(MaxConsumed * (DefaultLeadTimeDays + MaxCycle)), Num(0))
      [] OTHER -> StockEntry(Num(0), Num(1))

\* A catalog of SummaryCatalog ingredients, each without sales or with sales and
\* a stock that is critical, low or sufficient
LeaderboardReturns ==
    {[request |-> [date_from |-> DayZero, date_to |-> DayZero,
                   reorder_cycle_days |-> MaxCycle,
                   default_lead_time_days |-> DefaultLeadTimeDays],
      historical |->
          [consumption |-> Dict([k \in {IngredientId(n) : n \in {i \in 1..SummaryCatalog :
                                                                  profile[i] # "no_data"}}
                                   |-> Num(MaxConsumed)]),
           total_dishes |-> Num(MaxQuantity),
           top_menu_items |-> <<>>],
      ingredients |-> [n \in 1..SummaryCatalog |-> Ingredient(IngredientId(n), None)],
      stock |-> Dict([k \in {IngredientId(n) : n \in 1..SummaryCatalog}
                        |-> StockOfProfile(profile[k.n])]),
      ingredient_suppliers |-> EmptyDict,
      suppliers |-> EmptyDict] :
     profile \in [1..SummaryCatalog -> {"no_data", "critical", "low", "ok"}]}

\* A top_menu_items payload longer than the summary keeps
LongPayload ==
    [k \in 1..NumMenuItems |->
        [menu_item_id |-> MenuId(k),
         menu_item_name |-> IF k = 1 THEN None ELSE Str("Pizza"),
         quantity |-> IF k = NumMenuItems THEN None ELSE Num(NumMenuItems - k)]]

\* One ingredient: a history with or without total_dishes and consumption values
\* of every kind, a date range that is valid or not, an override whose lead time
\* is valid or not
TotalsReturns ==
    [request : [date_from : {DayZero}, date_to : {DayZero - 1, DayZero + MaxSpan},
                reorder_cycle_days : {MaxCycle},
                default_lead_time_days : {DefaultLeadTimeDays}],
     historical : [consumption : Dicts({IngredientId(1), IngredientId(2)},
                                       {None, Num(1), Num(MaxConsumed)}),
                   total_dishes : {None, Num(0), Num(MaxQuantity)},
                   top_menu_items : {<<>>, LongPayload}],
     ingredients : {<<Ingredient(IngredientId(1), None)>>},
     stock : {EmptyDict},
     ingredient_suppliers : {EmptyDict,
                             Dict(IngredientId(1) :> Override(Uuid(1), Bad, None))},
     suppliers : {EmptyDict}]

SummaryReturns == LeaderboardReturns \cup TotalsReturns

\* lines 1398-1406: a request for the summary arrives
RequestSummary ==
    /\ handler_pc = "idle"
    /\ \E returns \in SummaryReturns :
          /\ dao_returns' = returns
          /\ date_from' = returns.request.date_from
          /\ date_to' = returns.request.date_to
          /\ reorder_cycle_days' = returns.request.reorder_cycle_days
          /\ default_lead_time_days' = returns.request.default_lead_time_days
    /\ handler_pc' = "requested"
    /\ UNCHANGED <<pc, all_ingredients, consumption_data, stock_data, supplier_data,
                   default_supplier_data, days_in_range, recommendations, index, error>>
    /\ UNCHANGED <<sideVars, aggregatorVars, historical, summary>>

\* lines 1407 and 1665-1674: _resolve_date_range refuses the range
RejectDateRange ==
    /\ handler_pc = "requested"
    /\ date_from > date_to
    /\ handler_pc' = "error"
    /\ error' = "http_400"
    /\ UNCHANGED <<pc, inputs, days_in_range, recommendations, index>>
    /\ UNCHANGED <<sideVars, aggregatorVars, dao_returns, historical, summary>>

\* lines 1407 and 1665-1674: _resolve_date_range accepts the range
ResolveDateRange ==
    /\ handler_pc = "requested"
    /\ ~(date_from > date_to)
    /\ handler_pc' = "resolved"
    /\ UNCHANGED <<sideVars, engineVars, aggregatorVars, dao_returns, historical, summary>>

\* lines 1408-1409
FetchHistorical ==
    /\ handler_pc = "resolved"
    /\ historical' = dao_returns.historical
    /\ consumption_data' = dao_returns.historical.consumption
    /\ handler_pc' = "historical"
    /\ UNCHANGED <<pc, all_ingredients, stock_data, supplier_data, default_supplier_data,
                   date_from, date_to, reorder_cycle_days, default_lead_time_days,
                   days_in_range, recommendations, index, error>>
    /\ UNCHANGED <<sideVars, aggregatorVars, dao_returns, summary>>

\* line 1410
FetchIngredients ==
    /\ handler_pc = "historical"
    /\ all_ingredients' = dao_returns.ingredients
    /\ handler_pc' = "ingredients"
    /\ UNCHANGED <<pc, consumption_data, stock_data, supplier_data, default_supplier_data,
                   date_from, date_to, reorder_cycle_days, default_lead_time_days,
                   days_in_range, recommendations, index, error>>
    /\ UNCHANGED <<sideVars, aggregatorVars, dao_returns, historical, summary>>

\* line 1411
FetchStock ==
    /\ handler_pc = "ingredients"
    /\ stock_data' = dao_returns.stock
    /\ handler_pc' = "stock"
    /\ UNCHANGED <<pc, all_ingredients, consumption_data, supplier_data,
                   default_supplier_data, date_from, date_to, reorder_cycle_days,
                   default_lead_time_days, days_in_range, recommendations, index, error>>
    /\ UNCHANGED <<sideVars, aggregatorVars, dao_returns, historical, summary>>

\* lines 1412 and 1687-1688
FetchSuppliers ==
    /\ handler_pc = "stock"
    /\ supplier_data' = dao_returns.ingredient_suppliers
    /\ default_supplier_data' = dao_returns.suppliers
    /\ handler_pc' = "suppliers"
    /\ UNCHANGED <<pc, all_ingredients, consumption_data, stock_data, date_from, date_to,
                   reorder_cycle_days, default_lead_time_days, days_in_range,
                   recommendations, index, error>>
    /\ UNCHANGED <<sideVars, aggregatorVars, dao_returns, historical, summary>>

\* lines 1413-1422 and 1677-1699: the engine is called; what it raises ends the
\* request
ComputeRecommendations ==
    /\ handler_pc = "suppliers"
    /\ LET outcome == compute_purchase_recommendations(
                          all_ingredients, consumption_data, stock_data, supplier_data,
                          default_supplier_data, date_from, date_to,
                          reorder_cycle_days, default_lead_time_days)
       IN  /\ recommendations' = outcome.value
           /\ error' = outcome.raised
           /\ handler_pc' = IF outcome.raised = "" THEN "computed" ELSE "error"
    /\ UNCHANGED <<pc, inputs, days_in_range, index>>
    /\ UNCHANGED <<sideVars, aggregatorVars, dao_returns, historical, summary>>

\* lines 1424-1463
BuildSummary ==
    /\ handler_pc = "computed"
    /\ summary' = Summary(recommendations, historical, consumption_data,
                          date_from, date_to)
    /\ handler_pc' = "done"
    /\ UNCHANGED <<sideVars, engineVars, aggregatorVars, dao_returns, historical>>

NextSummary ==
    \/ RequestSummary
    \/ RejectDateRange
    \/ ResolveDateRange
    \/ FetchHistorical
    \/ FetchIngredients
    \/ FetchStock
    \/ FetchSuppliers
    \/ ComputeRecommendations
    \/ BuildSummary

SpecSummary == Init /\ [][NextSummary]_vars

-----------------------------------------------------------------------------
(* Properties of the summary.                                              *)

Statuses == {"OK", "LOW", "CRITICAL", "NO_DATA"}

\* C18: every recommendation has one of the four statuses, each counter of the
\* summary is the number of recommendations with its status, and the four
\* counters add up to the number of recommendations, which is the number of
\* catalog entries.
C18_CountersPartitionRecommendations ==
    handler_pc = "done" =>
        /\ \A i \in 1..Len(recommendations) : recommendations[i].status \in Statuses
        /\ summary.count_ok =
               Cardinality({i \in 1..Len(recommendations) : recommendations[i].status = "OK"})
        /\ summary.count_low =
               Cardinality({i \in 1..Len(recommendations) : recommendations[i].status = "LOW"})
        /\ summary.count_critical =
               Cardinality({i \in 1..Len(recommendations) :
                                recommendations[i].status = "CRITICAL"})
        /\ summary.count_no_data =
               Cardinality({i \in 1..Len(recommendations) :
                                recommendations[i].status = "NO_DATA"})
        /\ summary.count_ok + summary.count_low + summary.count_critical
               + summary.count_no_data = Len(recommendations)
        /\ Len(recommendations) = Len(all_ingredients)

\* C18 witness: a summary over more ingredients than it lists, with every status
\* counted at least once and one status more than once
C18_Witness ==
    /\ handler_pc = "done"
    /\ Len(recommendations) > TopLimit
    /\ summary.count_ok > 0
    /\ summary.count_low > 0
    /\ summary.count_critical > 1
    /\ summary.count_no_data > 0
    /\ recommendations[Len(recommendations)].status # recommendations[1].status

\* The recommendations with a quantity above, or not below, the quantity q
Above(q) ==
    {i \in 1..Len(recommendations) : RLt(q, recommendations[i].recommended_order_quantity)}
NotBelow(q) ==
    {i \in 1..Len(recommendations) : RLe(q, recommendations[i].recommended_order_quantity)}

\* C19: top_ingredients has min(5, number of recommendations) entries, each the
\* id, status and quantity of a recommendation, no ingredient twice, in
\* descending order of recommended_order_quantity; its k-th entry has the k-th
\* largest quantity, and every recommendation left out has a quantity no larger
\* than that of every entry (entries of quantity 0 are listed when fewer than 5
\* ingredients need a reorder).
C19_TopIngredientsRanked ==
    handler_pc = "done" =>
        LET top == summary.top_ingredients
        IN  /\ Len(top) = (IF Len(recommendations) < TopLimit
                           THEN Len(recommendations) ELSE TopLimit)
            /\ \A k \in 1..Len(top) :
                   /\ \E i \in 1..Len(recommendations) :
                          /\ top[k].ingredient_id = recommendations[i].ingredient_id
                          /\ top[k].status = recommendations[i].status
                          /\ top[k].recommended_order_quantity =
                                 recommendations[i].recommended_order_quantity
                   /\ Cardinality(Above(top[k].recommended_order_quantity)) < k
                   /\ Cardinality(NotBelow(top[k].recommended_order_quantity)) >= k
            /\ \A k, l \in 1..Len(top) :
                   k < l =>
                       /\ top[k].ingredient_id # top[l].ingredient_id
                       /\ RLe(top[l].recommended_order_quantity,
                              top[k].recommended_order_quantity)
            /\ \A i \in 1..Len(recommendations) :
                   (\A k \in 1..Len(top) :
                        top[k].ingredient_id # recommendations[i].ingredient_id) =>
                       \A k \in 1..Len(top) :
                           RLe(recommendations[i].recommended_order_quantity,
                               top[k].recommended_order_quantity)

\* C19 witness: more than 5 recommendations of which fewer than 5 need a
\* reorder: 5 are listed, the last with quantity 0, the first with a quantity
\* that is not the first recommendation's
C19_Witness ==
    /\ handler_pc = "done"
    /\ Len(recommendations) > TopLimit
    /\ Len(summary.top_ingredients) = TopLimit
    /\ Cardinality(Above(RZero)) < TopLimit
    /\ Cardinality(Above(RZero)) > 1
    /\ summary.top_ingredients[TopLimit].recommended_order_quantity = RZero
    /\ RLt(recommendations[1].recommended_order_quantity,
           summary.top_ingredients[1].recommended_order_quantity)

\* The sum of the values of the consumption map the handler holds, a null value
\* counting 0
SumOfConsumption ==
    SumSeq([n \in 1..SummaryCatalog |->
               IF HasKey(consumption_data, IngredientId(n))
                   /\ consumption_data.items[IngredientId(n)] # None
               THEN consumption_data.items[IngredientId(n)].v ELSE 0])

\* C20: total_dishes_sold is the total_dishes of the history whenever the history
\* has one, 0 included, and the sum of the values of the consumption map when it
\* has none.
C20_TotalDishesSoldSource ==
    handler_pc = "done" =>
        summary.total_dishes_sold =
            (IF historical.total_dishes # None
             THEN RInt(historical.total_dishes.v)
             ELSE RInt(SumOfConsumption))

\* C20 witness: a history whose total_dishes is 0 while its consumption map sums
\* to more, summarised with total_dishes_sold = 0
C20_Witness ==
    /\ handler_pc = "done"
    /\ historical.total_dishes = Num(0)
    /\ SumOfConsumption > 0
    /\ summary.total_dishes_sold = RZero

-----------------------------------------------------------------------------
(* Invocations of compute_purchase_recommendations interleaved: each has   *)
(* its own locals (lines 58-59), the argument objects are shared by the    *)
(* invocations that were given the same ones.                              *)

\* The locals of an invocation after its next step, lines 55-120, on the
\* argument objects a
CallAfter(local, a) ==
    IF local.pc = "check"
    THEN IF a.date_to < a.date_from
         THEN [local EXCEPT !.pc = "error", !.error = "invalid_range"]
         ELSE [local EXCEPT !.pc = "loop",
                            !.days_in_range = DaysInRange(a.date_from, a.date_to),
                            !.recommendations = <<>>]
    ELSE IF local.index = Len(a.all_ingredients)
    THEN [local EXCEPT !.pc = "done"]
    ELSE LET ingredient == a.all_ingredients[local.index + 1]
             ingredient_id == _coerce_uuid(ingredient.id)
         IN  IF ingredient_id = None
             THEN [local EXCEPT !.index = @ + 1, !.pc = "error", !.error = "missing_id"]
             ELSE IF StockFloatRaises(ingredient_id, a.consumption_data, a.stock_data)
             THEN [local EXCEPT !.index = @ + 1, !.pc = "error",
                                !.error = "float_overflow"]
             ELSE IF LeadTimeRaises(ingredient, ingredient_id, a.supplier_data,
                                    a.default_supplier_data, a.default_lead_time_days)
             THEN [local EXCEPT !.index = @ + 1, !.pc = "error", !.error = "invalid_int"]
             ELSE [local EXCEPT
                      !.index = @ + 1,
                      !.recommendations = Append(@,
                          IngredientRecommendation(ingredient, ingredient_id,
                              a.consumption_data, a.stock_data, a.supplier_data,
                              a.default_supplier_data, local.days_in_range,
                              a.reorder_cycle_days, a.default_lead_time_days))]

\* The callers build the argument objects
ProvideArguments ==
    /\ arguments = <<>>
    /\ arguments' \in [ArgumentSets -> InterleavedInputs]
    /\ UNCHANGED <<calls, engineVars, aggregatorVars, handlerVars, requestVars, menuVars>>

\* Invocation c is entered with its argument objects
Invoke(c) ==
    /\ arguments # <<>>
    /\ calls[c].pc = "idle"
    /\ calls' = [calls EXCEPT ![c].pc = "check"]
    /\ UNCHANGED <<arguments, engineVars, aggregatorVars, handlerVars, requestVars, menuVars>>

\* The consumption map without the entry of the next catalog entry of a call
WithoutConsumptionOf(a, local) ==
    IF local.pc = "loop" /\ local.index < Len(a.all_ingredients)
    THEN LET ingredient_id == _coerce_uuid(a.all_ingredients[local.index + 1].id)
             kept == Keys(a.consumption_data) \ {ingredient_id, PyStr(ingredient_id)}
         IN  IF ingredient_id = None THEN a
             ELSE [a EXCEPT !.consumption_data =
                      Dict([k \in kept |-> a.consumption_data.items[k]])]
    ELSE a

\* Faulty variant: the consumption entry is taken out of the map when read
AdvancePopping(c) ==
    /\ calls[c].pc \in {"check", "loop"}
    /\ calls' = [calls EXCEPT ![c] = CallAfter(@, arguments[ArgumentSetOf(c)])]
    /\ arguments' = [arguments EXCEPT ![ArgumentSetOf(c)] =
                         WithoutConsumptionOf(@, calls[c])]
    /\ UNCHANGED <<engineVars, aggregatorVars, handlerVars, requestVars, menuVars>>

\* Invocation c takes its next step; the arguments are only read
Advance(c) ==
    /\ calls[c].pc \in {"check", "loop"}
    /\ calls' = [calls EXCEPT ![c] = CallAfter(@, arguments[ArgumentSetOf(c)])]
    /\ UNCHANGED <<arguments, engineVars, aggregatorVars, handlerVars, requestVars, menuVars>>

NextInterleaved ==
    \/ ProvideArguments
    \/ \E c \in Calls : Invoke(c)
    \/ \E c \in Calls : Advance(c)

SpecInterleaved == Init /\ [][NextInterleaved]_vars

-----------------------------------------------------------------------------
(* Properties of interleaved invocations.                                  *)

CallEnded(c) == calls[c].pc \in {"done", "error"}

\* What invocation c handed to its caller: the list, or the exception
CallOutcome(c) ==
    IF calls[c].pc = "done"
    THEN [raised |-> "", value |-> calls[c].recommendations]
    ELSE [raised |-> calls[c].error, value |-> <<>>]

\* What the function yields on the argument objects of invocation c
FunctionOutcome(c) ==
    LET a == arguments[ArgumentSetOf(c)]
    IN  compute_purchase_recommendations(a.all_ingredients, a.consumption_data,
            a.stock_data, a.supplier_data, a.default_supplier_data, a.date_from,
            a.date_to, a.reorder_cycle_days, a.default_lead_time_days)

C21_Deterministic ==
    /\ \A c \in Calls : CallEnded(c) => CallOutcome(c) = FunctionOutcome(c)
    /\ \A c, d \in Calls :
          /\ CallEnded(c)
          /\ CallEnded(d)
          /\ arguments[ArgumentSetOf(c)] = arguments[ArgumentSetOf(d)]
          => CallOutcome(c) = CallOutcome(d)

C21_ArgumentsUntouched == arguments # <<>> => arguments' = arguments

\* C21: invocations on equal arguments, interleaved in any way with each other and
\* with an invocation on other arguments, hand back equal outcomes (the outcome of
\* the function on those arguments), and no step of any invocation changes the
\* catalog, the consumption map, the stock map or a supplier mapping.
C21_PureAndDeterministic ==
    /\ []C21_Deterministic
    /\ [][C21_ArgumentsUntouched]_vars

\* C21 witness: two invocations on the same objects have returned the same two
\* recommendations while a third, on other arguments, is in the middle of its loop
C21_Witness ==
    /\ arguments # <<>>
    /\ arguments[1] # arguments[2]
    /\ calls[1].pc = "done"
    /\ calls[2].pc = "done"
    /\ Len(calls[1].recommendations) = 2
    /\ calls[1].recommendations = calls[2].recommendations
    /\ calls[NumCalls].pc = "loop"
    /\ calls[NumCalls].index = 1

-----------------------------------------------------------------------------
(* The awaits of list_purchase_recommendations (lines 1378-1394) and of    *)
(* purchasing_summary (lines 1407-1463): a DAO method is in flight from    *)
(* the call to the return of its coroutine, the handler is suspended       *)
(* meanwhile and other requests proceed.                                   *)

Handlers == {"list_purchase_recommendations", "purchasing_summary"}

\* lines 1378 and 1407: a request arrives and _resolve_date_range (lines
\* 1665-1674) accepts its range or answers HTTP 400
ReceiveRequest(r) ==
    /\ requests[r].stage = "idle"
    /\ \E handler \in Handlers, range_valid \in BOOLEAN :
          requests' = [requests EXCEPT ![r].handler = handler,
                                       ![r].stage = IF range_valid THEN "fetching"
                                                    ELSE "rejected"]
    /\ UNCHANGED <<engineVars, aggregatorVars, handlerVars, interleavedVars, menuVars>>

\* lines 1379-1382 and 1408-1411: `await dao.<method>()` calls the k-th method
\* once the awaits before it have returned
IssueFetch(r, k) ==
    /\ requests[r].stage = "fetching"
    /\ requests[r].fetches[k] = "pending"
    /\ \A j \in 1..(k - 1) : requests[r].fetches[j] = "returned"
    /\ requests' = [requests EXCEPT ![r].fetches[k] = "in_flight"]
    /\ UNCHANGED <<engineVars, aggregatorVars, handlerVars, interleavedVars, menuVars>>

\* The awaited method returns its rows; for the first one this is the end of
\* the aggregation of lines 396-452
FetchReturns(r, k) ==
    /\ requests[r].fetches[k] = "in_flight"
    /\ requests' = [requests EXCEPT ![r].fetches[k] = "returned"]
    /\ UNCHANGED <<engineVars, aggregatorVars, handlerVars, interleavedVars, menuVars>>

\* The awaited method raises the HTTPException of its except clauses, which
\* ends the request
FetchFails(r, k) ==
    /\ requests[r].fetches[k] = "in_flight"
    /\ requests' = [requests EXCEPT ![r].fetches[k] = "raised", ![r].stage = "failed"]
    /\ UNCHANGED <<engineVars, aggregatorVars, handlerVars, interleavedVars, menuVars>>

\* lines 1384-1394 and 1412-1422: _compute_recommendations runs; the list
\* handler returns its result
RunEngine(r) ==
    /\ requests[r].stage = "fetching"
    /\ \A k \in DOMAIN Fetches : requests[r].fetches[k] = "returned"
    /\ requests' = [requests EXCEPT ![r].stage =
                        IF requests[r].handler = "purchasing_summary"
                        THEN "computed" ELSE "responded"]
    /\ UNCHANGED <<engineVars, aggregatorVars, handlerVars, interleavedVars, menuVars>>

\* lines 1424-1463
RespondSummary(r) ==
    /\ requests[r].stage = "computed"
    /\ requests' = [requests EXCEPT ![r].stage = "responded"]
    /\ UNCHANGED <<engineVars, aggregatorVars, handlerVars, interleavedVars, menuVars>>

NextRequests ==
    \/ \E r \in Requests : ReceiveRequest(r)
    \/ \E r \in Requests, k \in DOMAIN Fetches : IssueFetch(r, k)
    \/ \E r \in Requests, k \in DOMAIN Fetches : FetchReturns(r, k)
    \/ \E r \in Requests, k \in DOMAIN Fetches : FetchFails(r, k)
    \/ \E r \in Requests : RunEngine(r)
    \/ \E r \in Requests : RespondSummary(r)

SpecRequests == Init /\ [][NextRequests]_vars

-----------------------------------------------------------------------------
(* Properties of the fetches of a request.                                 *)

FetchIssued(r, k) == requests[r].fetches[k] # "pending"

FetchReturned(r, k) == requests[r].fetches[k] = "returned"

EngineRan(r) == requests[r].stage \in {"computed", "responded"}

\* C22 as stated: the four fetches of a request are issued concurrently, so none
\* of them has been waited for to its end while another is not yet issued, and all
\* four have returned when the recommendation step has run.
C22_FetchesConcurrent ==
    \A r \in Requests :
        /\ (\E k \in DOMAIN Fetches : FetchReturned(r, k))
               => \A k \in DOMAIN Fetches : FetchIssued(r, k)
        /\ EngineRan(r) => \A k \in DOMAIN Fetches : FetchReturned(r, k)

-----------------------------------------------------------------------------
(* Properties of the quantities of a recommendation.                       *)

\* The value the consumption map holds for the ingredient of r is not None
HasConsumptionData(r) == _lookup(consumption_data, r.ingredient_id) # None

\* The number of days of the range, both ends counted, at least 1
DaysOfRange == CHOOSE d \in {1, (date_to - date_from) + 1} :
                   d >= 1 /\ d >= (date_to - date_from) + 1

\* C23: for every ingredient with consumption data of a returned list,
\* avg_daily_consumption = total_consumed / days_in_range with days_in_range =
\* max(1, days from date_from to date_to + 1), planning_horizon_days =
\* lead_time_days + max(reorder_cycle_days, 0), and recommended_order_quantity =
\* max(0, avg_daily_consumption * planning_horizon_days + safety_stock -
\* current_stock).
C23_QuantityFormula ==
    \A r \in Returned :
        HasConsumptionData(r) =>
            LET net == RSub(RAdd(RMul(r.avg_daily_consumption,
                                      RInt(r.planning_horizon_days)),
                                 r.safety_stock),
                            r.current_stock)
            IN  /\ days_in_range = DaysOfRange
                /\ r.total_quantity_consumed =
                       _to_float(_lookup(consumption_data, r.ingredient_id), RZero)
                /\ RMul(r.avg_daily_consumption, RInt(DaysOfRange))
                       = r.total_quantity_consumed
                /\ \/ reorder_cycle_days >= 0
                      /\ r.planning_horizon_days = r.lead_time_days + reorder_cycle_days
                   \/ reorder_cycle_days < 0
                      /\ r.planning_horizon_days = r.lead_time_days
                /\ \/ RLt(RZero, net) /\ r.recommended_order_quantity = net
                   \/ RLe(net, RZero) /\ r.recommended_order_quantity = RZero

\* C23 witness: the first ingredient of the test of lines 15-74: 14 consumed over
\* 7 days, stock 2, safety stock 1, lead time 5, reorder cycle 7 give an average of
\* 2, a coverage of 1 day, a quantity of 23 and CRITICAL
C23_Witness ==
    /\ pc = "done"
    /\ days_in_range = 7
    /\ reorder_cycle_days = 7
    /\ \E r \in Emitted :
          /\ r.total_quantity_consumed = RInt(14)
          /\ r.current_stock = RInt(2)
          /\ r.safety_stock = RInt(1)
          /\ r.lead_time_days = 5
          /\ r.avg_daily_consumption = RInt(2)
          /\ r.coverage_days = RInt(1)
          /\ r.recommended_order_quantity = RInt(23)
          /\ r.status = "CRITICAL"

\* A float that is not inf or -inf
Finite(x) == x.d # 0

\* C24 as stated: coverage_days is null exactly when avg_daily_consumption is not
\* strictly positive, which is when there is no consumption data or the total is
\* zero or less; otherwise it is current_stock / avg_daily_consumption, and it is
\* never infinite, nor does the division end the call.
C24_CoverageDefined ==
    /\ error # "zero_division"
    /\ \A r \in Returned :
          /\ (r.coverage_days = None) <=> ~RLt(RZero, r.avg_daily_consumption)
          /\ ~RLt(RZero, r.avg_daily_consumption)
                 <=> (~HasConsumptionData(r) \/ RLe(r.total_quantity_consumed, RZero))
          /\ r.coverage_days # None =>
                 /\ RMul(r.coverage_days, r.avg_daily_consumption) = r.current_stock
                 /\ Finite(r.coverage_days)

\* C25: for an ingredient with consumption data and a positive total, when
\* safety_stock = 0 the status is OK exactly when recommended_order_quantity = 0,
\* which is exactly when current_stock >= projected_need; and a status OK with a
\* positive quantity occurs only with safety_stock > 0.
C25_OkIffNothingToOrder ==
    \A r \in Returned :
        HasConsumptionData(r) /\ RLt(RZero, r.total_quantity_consumed) =>
            /\ r.safety_stock = RZero =>
                   /\ (r.status = "OK") <=> (r.recommended_order_quantity = RZero)
                   /\ (r.recommended_order_quantity = RZero)
                          <=> RLe(r.projected_need, r.current_stock)
            /\ (r.status = "OK" /\ RLt(RZero, r.recommended_order_quantity))
                   => RLt(RZero, r.safety_stock)

\* C25 witness: the call of the test of lines 105-122: 10 consumed over 10 days,
\* a stock of 200 and no safety stock give quantity 0 and OK
C25_Witness ==
    /\ pc = "done"
    /\ \E r \in Emitted :
          /\ HasConsumptionData(r)
          /\ r.total_quantity_consumed = RInt(10)
          /\ r.safety_stock = RZero
          /\ r.current_stock = RInt(200)
          /\ RLt(RZero, r.projected_need)
          /\ r.recommended_order_quantity = RZero
          /\ r.status = "OK"

\* The status the tests of lines 210-214 would give in the other order
LowTestFirst(r) ==
    IF ~HasConsumptionData(r) THEN "NO_DATA"
    ELSE IF RLe(r.recommended_order_quantity, RZero) THEN "OK"
    ELSE IF r.coverage_days = None THEN "LOW"
    ELSE IF RLe(r.coverage_days, RInt(r.planning_horizon_days)) THEN "LOW"
    ELSE IF RLe(r.coverage_days, RInt(r.lead_time_days)) THEN "CRITICAL"
    ELSE "OK"

\* C26: every recommendation has planning_horizon_days >= lead_time_days, also
\* under a negative reorder cycle; hence a coverage that passes the CRITICAL test
\* (<= lead_time_days) passes the LOW test (<= planning_horizon_days) as well, and
\* every CRITICAL recommendation would be LOW if the LOW test came first.
C26_HorizonCoversLeadTime ==
    \A r \in Emitted :
        /\ r.planning_horizon_days >= r.lead_time_days
        /\ (r.coverage_days # None /\ RLe(r.coverage_days, RInt(r.lead_time_days)))
               => RLe(r.coverage_days, RInt(r.planning_horizon_days))
        /\ r.status = "CRITICAL" => LowTestFirst(r) = "LOW"
        /\ r.status # "CRITICAL" => LowTestFirst(r) = r.status

\* C26 witness: a CRITICAL recommendation computed under a negative reorder
\* cycle, its horizon being the lead time
C26_Witness ==
    /\ pc = "done"
    /\ reorder_cycle_days < 0
    /\ \E r \in Emitted :
          /\ r.status = "CRITICAL"
          /\ r.lead_time_days > 0
          /\ r.planning_horizon_days = r.lead_time_days
          /\ RLe(r.coverage_days, RInt(r.planning_horizon_days))

LowWithoutCoverage(r) == r.status = "LOW" /\ r.coverage_days = None

\* Every LOW recommendation with a coverage has it above the lead time and within
\* the planning horizon
LowWithCoverageIsBetween ==
    \A r \in Emitted :
        (r.status = "LOW" /\ r.coverage_days # None) =>
            /\ RLt(RInt(r.lead_time_days), r.coverage_days)
            /\ RLe(r.coverage_days, RInt(r.planning_horizon_days))

\* C27 as stated: a LOW recommendation without coverage has consumption data, a
\* total consumed <= 0 and safety_stock > current_stock; every other LOW
\* recommendation has lead_time_days < coverage_days <= planning_horizon_days.
C27_LowWithoutCoverageNeedsSafety ==
    /\ \A r \in Emitted :
          LowWithoutCoverage(r) =>
              /\ HasConsumptionData(r)
              /\ RLe(r.total_quantity_consumed, RZero)
              /\ RLt(r.current_stock, r.safety_stock)
    /\ LowWithCoverageIsBetween

\* C27, amended: a LOW recommendation without coverage has consumption data, a
\* total consumed <= 0 and projected_need + safety_stock > current_stock, which
\* means safety_stock > current_stock unless both the total and the planning
\* horizon are negative; every other LOW recommendation has lead_time_days <
\* coverage_days <= planning_horizon_days.
C27_LowWithoutCoverageNeedsOrder ==
    /\ \A r \in Emitted :
          LowWithoutCoverage(r) =>
              /\ HasConsumptionData(r)
              /\ RLe(r.total_quantity_consumed, RZero)
              /\ RLt(r.current_stock, RAdd(r.projected_need, r.safety_stock))
              /\ \/ RLt(r.current_stock, r.safety_stock)
                 \/ /\ RLt(r.total_quantity_consumed, RZero)
                    /\ r.planning_horizon_days < 0
    /\ LowWithCoverageIsBetween

\* C27 witness: a returned LOW recommendation without coverage, of an ingredient
\* whose recorded consumption is 0 and whose stock is below the safety stock
C27_Witness ==
    /\ pc = "done"
    /\ \E r \in Emitted :
          /\ LowWithoutCoverage(r)
          /\ HasConsumptionData(r)
          /\ r.total_quantity_consumed = RZero
          /\ RLe(RZero, r.current_stock)
          /\ RLt(r.current_stock, r.safety_stock)

-----------------------------------------------------------------------------
(* list_purchase_recommendations, lines 1378-1394 of routes/purchasing.py, *)
(* on what fetch_historical_orders_and_recipes has aggregated.             *)

\* dict(historical.get("consumption", {})), line 1380: the aggregated quantities
\* as the values of the dict handed to the engine
ConsumptionDict(aggregated) == Dict([k \in DOMAIN aggregated |-> Num(aggregated[k])])

\* What the other three DAO methods answer: the two ingredients of the recipes,
\* each with a stock below or above its safety stock
PipelineReturns ==
    [ingredients : {[n \in 1..2 |-> Ingredient(IngredientId(n), None)]},
     stock : {Dict([k \in {IngredientId(n) : n \in 1..2} |-> entry]) :
                 entry \in {StockEntry(Num(0), Num(1)), StockEntry(Num(MaxStock), Num(0))}},
     ingredient_suppliers : {EmptyDict},
     suppliers : {EmptyDict}]

\* lines 1378-1380: the DAO method has returned the aggregate to the handler
TakeHistorical ==
    /\ handler_pc = "idle"
    /\ dao_pc = "done"
    /\ consumption_data' = ConsumptionDict(historical.consumption)
    /\ dao_returns' \in PipelineReturns
    /\ handler_pc' = "historical"
    /\ UNCHANGED <<pc, all_ingredients, stock_data, supplier_data, default_supplier_data,
                   date_from, date_to, reorder_cycle_days, default_lead_time_days,
                   days_in_range, recommendations, index, error>>
    /\ UNCHANGED <<sideVars, aggregatorVars, historical, summary>>

NextPipeline ==
    \/ FetchDataset
    \/ ReturnNoOrders
    \/ BuildRecipeMap
    \/ NameMenuItems
    \/ AggregateOrder
    \/ ReturnAggregate
    \/ TakeHistorical
    \/ FetchIngredients
    \/ FetchStock
    \/ FetchSuppliers
    \/ ComputeRecommendations

SpecPipeline == Init /\ [][NextPipeline]_vars

-----------------------------------------------------------------------------
(* Properties of the pipeline.                                             *)

\* C28: every value of the consumption map the aggregator builds and returns is
\* strictly positive; and in the recommendations computed from it every
\* ingredient with consumption data has avg_daily_consumption > 0 and a coverage,
\* so that none is LOW for want of a coverage.
C28_AggregatedConsumptionPositive ==
    /\ \A k \in DOMAIN consumption : consumption[k] > 0
    /\ dao_pc = "done" => \A k \in DOMAIN historical.consumption :
                              historical.consumption[k] > 0
    /\ handler_pc = "computed" =>
           \A r \in Emitted :
               /\ HasConsumptionData(r) =>
                      /\ RLt(RZero, r.avg_daily_consumption)
                      /\ r.coverage_days # None
               /\ ~LowWithoutCoverage(r)

\* C28 witness: recommendations computed from an aggregate in which a recipe row
\* of quantity <= 0 took part, for an ingredient with consumption and a stock
\* below its safety stock next to an ingredient without consumption
C28_Witness ==
    /\ handler_pc = "computed"
    /\ \E j \in 1..Len(recipes) :
          /\ Truthy(recipes[j].ingredient_id)
          /\ FloatOrZero(recipes[j].quantity_per_unit) <= 0
          /\ \E k \in 1..Len(orders) :
                 /\ QualifyingOrder(k)
                 /\ PyStr(orders[k].menu_item_id) = PyStr(recipes[j].menu_item_id)
    /\ \E r \in Emitted :
          /\ HasConsumptionData(r)
          /\ RLt(r.current_stock, r.safety_stock)
          /\ r.coverage_days # None
    /\ \E r \in Emitted : r.status = "NO_DATA"

-----------------------------------------------------------------------------
(* The recommendations as a function of the stock.                         *)

MaxRaise == 3

\* The key under which _lookup finds the stock entry of an ingredient
StockKeys(id) ==
    IF HasKey(stock_data, id) THEN {id}
    ELSE IF HasKey(stock_data, PyStr(id)) THEN {PyStr(id)}
    ELSE {}

\* Whether the entry under key k records a current stock that can be raised: a
\* number, or a value read as 0.0
Raisable(k) ==
    /\ stock_data.items[k] # None
    /\ stock_data.items[k].current_stock.t \in {"num", "none", "bad"}
    /\ stock_data.items[k].safety_stock.t # "huge"

\* The stock map with the current stock under key k raised by amount
RaisedStock(k, amount) ==
    LET value == stock_data.items[k].current_stock
        raised == IF value.t = "num" THEN Num(value.v + amount) ELSE Num(amount)
    IN  Dict([stock_data.items EXCEPT ![k].current_stock = raised])

StatusRank(status) ==
    CASE status = "OK" -> 0
      [] status = "LOW" -> 1
      [] status = "CRITICAL" -> 2
      [] OTHER -> 3

NotWorse(before, after) ==
    IF before = "NO_DATA" THEN after = "NO_DATA"
    ELSE after # "NO_DATA" /\ StatusRank(after) <= StatusRank(before)

\* The recommendations the call would have returned with the stock under k raised
WithRaisedStock(k, amount) ==
    Rerun(all_ingredients, consumption_data, RaisedStock(k, amount),
          supplier_data, default_supplier_data)

\* C29: with every other argument as it is, a call made with an ingredient's
\* current stock raised returns for it a recommended_order_quantity that is not
\* larger and a status that is not worse in the order OK < LOW < CRITICAL, NO_DATA
\* staying NO_DATA.
C29_MoreStockNeverOrdersMore ==
    pc = "done" =>
        \A i \in 1..Len(recommendations) :
            \A k \in StockKeys(recommendations[i].ingredient_id) :
                Raisable(k) =>
                    \A amount \in 1..MaxRaise :
                        LET after == WithRaisedStock(k, amount)
                        IN  /\ after.raised = ""
                            /\ RLe(after.value[i].recommended_order_quantity,
                                   recommendations[i].recommended_order_quantity)
                            /\ NotWorse(recommendations[i].status, after.value[i].status)

\* C29 witness: a returned CRITICAL recommendation that is LOW, with a smaller
\* quantity, when the stock is raised by one unit, and OK when raised by more
C29_Witness ==
    /\ pc = "done"
    /\ \E i \in 1..Len(recommendations) :
          \E k \in StockKeys(recommendations[i].ingredient_id) :
              /\ Raisable(k)
              /\ recommendations[i].status = "CRITICAL"
              /\ WithRaisedStock(k, 1).value[i].status = "LOW"
              /\ RLt(WithRaisedStock(k, 1).value[i].recommended_order_quantity,
                     recommendations[i].recommended_order_quantity)
              /\ WithRaisedStock(k, MaxRaise).value[i].status = "OK"

-----------------------------------------------------------------------------
(* SupabasePurchasingDAO._execute_with_display_name_fallback on one DAO.   *)
(* A call gives up control while a request is in flight (asyncio.to_thread *)
(* is awaited), so calls made on the same DAO may overlap.                 *)

\* Faulty variant: display_name is selected whatever is known of the column
IncludeDisplayNameAlways(supported) == TRUE

\* Line 1261: include_display_name = self._menu_items_supports_display_name is not False
IncludeDisplayName(supported) == supported # Bool(FALSE)

\* A request as sent: the call, whether it selects display_name (lines 1239 and
\* 1248), the attribute when it was sent, and the answer once it has come
MenuRequest(c, include) ==
    [call |-> c, include_display_name |-> include,
     supported |-> _menu_items_supports_display_name, response |-> "pending"]

\* The position in menu_requests of the request of call c that is in flight
InFlight(c) ==
    CHOOSE i \in DOMAIN menu_requests :
        menu_requests[i].call = c /\ menu_requests[i].response = "pending"

Answered(c, response) == [menu_requests EXCEPT ![InFlight(c)].response = response]

\* Lines 1261-1267: the call starts and sends its first request
StartMenuFetch(c) ==
    /\ menu_calls[c].pc = "idle"
    /\ LET include_display_name == IncludeDisplayName(_menu_items_supports_display_name)
       IN  /\ menu_calls' = [menu_calls EXCEPT ![c] =
                                [pc |-> "first",
                                 include_display_name |-> include_display_name,
                                 attempts |-> 1]]
           /\ menu_requests' = Append(menu_requests, MenuRequest(c, include_display_name))
    /\ UNCHANGED _menu_items_supports_display_name
    /\ UNCHANGED <<engineVars, aggregatorVars, handlerVars, interleavedVars, requestVars>>

\* Lines 1267-1270: the first request returns rows
FirstAttemptReturns(c) ==
    /\ menu_calls[c].pc = "first"
    /\ _menu_items_supports_display_name' =
           IF menu_calls[c].include_display_name /\ _menu_items_supports_display_name = None
           THEN Bool(TRUE)
           ELSE _menu_items_supports_display_name
    /\ menu_calls' = [menu_calls EXCEPT ![c].pc = "returned"]
    /\ menu_requests' = Answered(c, "rows")
    /\ UNCHANGED <<engineVars, aggregatorVars, handlerVars, interleavedVars, requestVars>>

\* Lines 1271-1275: the first request, which selected display_name, fails with
\* the error _is_missing_display_name_error recognises; the attribute is set
\* and the request is sent again without display_name
FirstAttemptMissesDisplayName(c) ==
    /\ menu_calls[c].pc = "first"
    /\ menu_calls[c].include_display_name
    /\ _menu_items_supports_display_name' = Bool(FALSE)
    /\ menu_calls' = [menu_calls EXCEPT ![c].pc = "retry", ![c].attempts = 2]
    /\ menu_requests' =
           Append(Answered(c, "missing_display_name"),
                  [call |-> c, include_display_name |-> FALSE,
                   supported |-> Bool(FALSE), response |-> "pending"])
    /\ UNCHANGED <<engineVars, aggregatorVars, handlerVars, interleavedVars, requestVars>>

\* Lines 1271-1272 and 1280-1282: the first request fails otherwise (with the
\* missing-column error only if display_name was not selected), the call raises
FirstAttemptFails(c, response) ==
    /\ menu_calls[c].pc = "first"
    /\ response # "rows"
    /\ response = "missing_display_name" => ~menu_calls[c].include_display_name
    /\ menu_calls' = [menu_calls EXCEPT ![c].pc = "raised"]
    /\ menu_requests' = Answered(c, response)
    /\ UNCHANGED _menu_items_supports_display_name
    /\ UNCHANGED <<engineVars, aggregatorVars, handlerVars, interleavedVars, requestVars>>

\* Line 1275: the second request returns rows
RetryReturns(c) ==
    /\ menu_calls[c].pc = "retry"
    /\ menu_calls' = [menu_calls EXCEPT ![c].pc = "returned"]
    /\ menu_requests' = Answered(c, "rows")
    /\ UNCHANGED _menu_items_supports_display_name
    /\ UNCHANGED <<engineVars, aggregatorVars, handlerVars, interleavedVars, requestVars>>

\* Lines 1276-1279: the second request fails, the call raises
RetryFails(c, response) ==
    /\ menu_calls[c].pc = "retry"
    /\ response # "rows"
    /\ menu_calls' = [menu_calls EXCEPT ![c].pc = "raised"]
    /\ menu_requests' = Answered(c, response)
    /\ UNCHANGED _menu_items_supports_display_name
    /\ UNCHANGED <<engineVars, aggregatorVars, handlerVars, interleavedVars, requestVars>>

NextMenuFetch ==
    \/ \E c \in MenuCalls : StartMenuFetch(c)
    \/ \E c \in MenuCalls : FirstAttemptReturns(c)
    \/ \E c \in MenuCalls : FirstAttemptMissesDisplayName(c)
    \/ \E c \in MenuCalls, response \in MenuResponses : FirstAttemptFails(c, response)
    \/ \E c \in MenuCalls : RetryReturns(c)
    \/ \E c \in MenuCalls, response \in MenuResponses : RetryFails(c, response)

SpecMenuFetch == Init /\ [][NextMenuFetch]_vars

\* The positions in menu_requests of the requests call c has sent
RequestsOf(c) == {i \in DOMAIN menu_requests : menu_requests[i].call = c}

\* Once False, the attribute stays False
FalseStays ==
    _menu_items_supports_display_name = Bool(FALSE)
        => _menu_items_supports_display_name' = Bool(FALSE)

\* A request selects display_name only if the attribute was not False when it
\* was sent, and the attribute is False once a request selecting display_name
\* has been answered with the missing-column error
NoneSelectsAfterFalse ==
    \A i \in DOMAIN menu_requests :
        /\ menu_requests[i].supported = Bool(FALSE) => ~menu_requests[i].include_display_name
        /\ ( /\ menu_requests[i].include_display_name
             /\ menu_requests[i].response = "missing_display_name" )
               => _menu_items_supports_display_name = Bool(FALSE)

\* A request that selected display_name and was answered with the missing-column
\* error is followed by exactly one more request of its call, sent without
\* display_name; a call sends a second request for no other reason
RetriedOnce ==
    \A c \in MenuCalls :
        /\ Cardinality(RequestsOf(c)) = menu_calls[c].attempts
        /\ menu_calls[c].attempts <= 2
        /\ \A i \in RequestsOf(c) :
              LET later == {j \in RequestsOf(c) : j > i}
              IN  IF /\ menu_requests[i].include_display_name
                     /\ menu_requests[i].response = "missing_display_name"
                  THEN /\ Cardinality(later) = 1
                       /\ \A j \in later : ~menu_requests[j].include_display_name
                  ELSE later = {}

\* C30: on one DAO, whatever the menu-item fetches and their answers, once
\* _menu_items_supports_display_name is False it stays False and no request sent
\* from then on selects display_name; a request selecting display_name that fails
\* with the missing-column error is sent again exactly once, without display_name,
\* and no call sends more than two requests.
C30_DisplayNameFallback ==
    /\ [](NoneSelectsAfterFalse /\ RetriedOnce)
    /\ [][FalseStays]_vars

\* C30 witness: a call that selected display_name, was answered with the
\* missing-column error and returned rows on its second request, then a call
\* that sent one request, without display_name, and a third call whose request
\* without display_name failed and that raised after that single request
C30_Witness ==
    /\ _menu_items_supports_display_name = Bool(FALSE)
    /\ \E a, b, c \in MenuCalls :
          /\ menu_calls[a] = [pc |-> "returned", include_display_name |-> TRUE, attempts |-> 2]
          /\ menu_calls[b] = [pc |-> "returned", include_display_name |-> FALSE, attempts |-> 1]
          /\ menu_calls[c] = [pc |-> "raised", include_display_name |-> FALSE, attempts |-> 1]
          /\ \A i \in RequestsOf(a), j \in RequestsOf(b) \cup RequestsOf(c) : i < j

====
